---- MODULE Spec2Model ----
(***************************************************************************)
(* Speaker / language-pair tracking and translation dispatch of the        *)
(* realtime translator.                                                    *)
(*                                                                         *)
(* The repository holds several revisions of the same hooks.  Each         *)
(* revision is modelled by its own actions over the shared state:          *)
(*   Spec     the inferring useLanguagePair hook                           *)
(*            (src/src/app/hooks/useLanguagePair.ts)                       *)
(*   SpecSel  the selecting useLanguagePair hook and the server-event      *)
(*            handler that dispatches translations (src/unnamed/part_001)  *)
(*            with translateAndSpeak of src/src/app/App.tsx, all paths     *)
(*            within one instant of the clock                              *)
(*   SpecFn   the translate_text path of the same handler with the clock   *)
(*            advancing across the 3000 ms window                          *)
(*   SpecApp  the speaker-sequence effect of src/src/app/App.tsx           *)
(*   SpecHook the selecting useLanguagePair hook on its own                *)
(*   SpecEv   handleServerEvent of src/unnamed/part_001, lines 1676-1905:  *)
(*            the events as they arrive, the callbacks it schedules and    *)
(*            the collaborator calls they start                            *)
(*   SpecB    the translate_text path of                                   *)
(*            src/src/app/hooks/useHandleServerEvent.ts over the           *)
(*            inferring hook                                               *)
(*   SpecCtx  the SpeakerProvider of                                       *)
(*            src/src/app/contexts/SpeakerContext.tsx with the inferring   *)
(*            hook it holds                                                *)
(*   SpecT    the transcription path of                                    *)
(*            src/src/app/hooks/useHandleServerEvent.ts over the           *)
(*            inferring hook, with the session of src/src/app/App.tsx      *)
(*   SpecKey  the suppression of translate_text calls by their keys        *)
(*            (src/unnamed/part_001, lines 1056-1110)                      *)
(*   SpecCache  window._recentTranslations as time passes the retention    *)
(*            period                                                       *)
(*   SpecBatch  the function calls of a response.done event                *)
(*            (src/unnamed/part_001, lines 1826-1896)                      *)
(***************************************************************************)
EXTENDS Integers, Sequences, FiniteSets, TLC

VARIABLES
    lockedLanguagePair,     \* useState<LockedLanguagePair | null>
    activeSpeakers,         \* useState<Speaker[]>
    lastDetectedLanguage,   \* useState<Language | null>
    now,                    \* the value Date.now() returns
    lastOp,                 \* the last step: the call's name, its arguments, its result
    shouldShowLanguageModal,\* useState<boolean> of the selecting hook
    activeLanguages,        \* the activeLanguages prop the App passes to the handler
    recentTranslations,     \* window._recentTranslations: key -> timestamp
    inflight,               \* the collaborator calls that have not settled yet
    lastDispatch,           \* what the handler decided for the latest dispatch
    handled,                \* how many events the handler has been given
    invokedAt,              \* per translate_text arguments, when the tool was last called
    messages,               \* the message sink: what addMessage appended
    clientEvents,           \* the types of the events sendClientEvent sent
    transcriptItems,        \* the transcript the App reads from its context
    speakerLanguages,       \* useState of the App: the speaker sequence
    timers,                 \* the callbacks setTimeout(..., 0) has scheduled, in order
    translatedItemIds,      \* window._translatedItemIds
    languageDetectionCache, \* useRef<Map>: text -> language of detectAndCacheLanguage
    unhandledRejections,    \* how many handler promises rejected with nobody catching
    delivered,              \* the server events handleServerEvent has been given
    sessionStatus,          \* useState<SessionStatus> of the App
    pcRef,                  \* pcRef.current of the App: the installed peer connection
    connecting,             \* the calls of connectToRealtime that are still awaiting
    speakerMap,             \* SpeakerState.speakerMap, in the Map's insertion order
    speakerEvents           \* SpeakerState.speakerEvents

hookVars == <<lockedLanguagePair, activeSpeakers, lastDetectedLanguage>>

\* the state only handleServerEvent and the older handleFunctionCall touch
eventVars ==
    <<timers, translatedItemIds, languageDetectionCache, unhandledRejections,
      delivered>>

\* the state of the dispatching handler
dispatchVars ==
    <<recentTranslations, inflight, lastDispatch, handled, invokedAt, messages,
      clientEvents, eventVars>>

\* the state of the SpeakerProvider's reducer
ctxVars == <<speakerMap, speakerEvents>>

\* the connection the App holds and the connection attempts under way
connVars == <<pcRef, connecting>>

\* the state of the App (its speaker-sequence effect and its session) and of
\* the SpeakerProvider
appVars == <<transcriptItems, speakerLanguages, sessionStatus, connVars, ctxVars>>

\* what the inferring hook never touches
selVars == <<shouldShowLanguageModal, activeLanguages, dispatchVars, appVars>>

----------------------------------------------------------------------------
(* Bounds *)

\* the last value of the clock
MaxNow == 1

\* the longest speaker list: a call that would append to a full list is not taken
MaxSpeakers == 2

----------------------------------------------------------------------------
(* Values *)

\* A Language is identified by its code (types: Language { code, name }).
Codes == {"zh", "en", "ko"}

SpeakerIds == {"s1", "s2"}

\* null of the TypeScript source
Null == "null"

\* LockedLanguagePair | null: the absent pair is the record of two nulls
NoPair == [source |-> Null, target |-> Null]

Pair(s, t) == [source |-> s, target |-> t]

\* the null a direction query returns
NoDirection == [source |-> Null, target |-> Null]

DefaultSource == "zh"
DefaultTarget == "en"
English == "en"

----------------------------------------------------------------------------
(* Characters and text.  A text is a sequence of characters; a character   *)
(* is named by a short string.                                             *)

LatinLower == {"a", "b", "c", "d", "e", "f", "g", "h", "i", "j", "k", "l", "m",
               "n", "o", "p", "q", "r", "s", "t", "u", "v", "w", "x", "y", "z"}
Cyrillic   == {"ya"}
CjkIdeograph == {"zhong"}
Hangul     == {"han"}
Arrow      == "arrow"

\* String.prototype.toLowerCase, character by character
ToLowerCase(text) ==
    [i \in 1..Len(text) |->
        IF text[i] = "H" THEN "h" ELSE IF text[i] = "T" THEN "t" ELSE text[i]]

\* RegExp.test with a character class: some character of the text is in it
TestClass(class, text) == \E i \in 1..Len(text) : text[i] \in class

\* detectLanguage of utils/languageDetection.ts
\* (trim() removes only leading and trailing white space, which no class matches)
detectLanguage(text) ==
    LET cleanText == ToLowerCase(text) IN
    IF TestClass(Cyrillic, cleanText) THEN "ru"
    ELSE IF TestClass(CjkIdeograph, cleanText) THEN "ja"
    ELSE IF TestClass(Hangul, cleanText) THEN "ko"
    ELSE IF TestClass(LatinLower, cleanText) THEN "en"
    ELSE Null

\* the utterances offered to handleLanguageDetection
UtteranceTexts ==
    { <<"han">>, <<"H", "i">>, <<"1">>, <<"1", " ", "han">> }

----------------------------------------------------------------------------
(* Sequence helpers of the JavaScript array methods *)

\* Array.prototype.find on a predicate given as the set of matching indices
FirstIndex(S) == IF S = {} THEN 0 ELSE CHOOSE i \in S : \A j \in S : i <= j

\* insert x into a sequence sorted by timestamp descending, after its equals
RECURSIVE InsertDesc(_, _)
InsertDesc(x, sorted) ==
    IF sorted = << >> THEN <<x>>
    ELSE IF Head(sorted).timestamp >= x.timestamp
         THEN <<Head(sorted)>> \o InsertDesc(x, Tail(sorted))
         ELSE <<x>> \o sorted

\* Array.prototype.sort((a, b) => b.timestamp - a.timestamp): stable
RECURSIVE SortDesc(_)
SortDesc(seq) ==
    IF seq = << >> THEN << >>
    ELSE LET n == Len(seq) IN InsertDesc(seq[n], SortDesc(SubSeq(seq, 1, n - 1)))

Speaker(id, lang, ts, active) ==
    [speakerId |-> id, language |-> lang, timestamp |-> ts, isActive |-> active]

FindSpeaker(speakers, id) ==
    FirstIndex({i \in 1..Len(speakers) : speakers[i].speakerId = id})

FindLanguage(speakers, code) ==
    FirstIndex({i \in 1..Len(speakers) : speakers[i].language = code})

IsActive(s) == s.isActive

\* getActiveSpeakers
getActiveSpeakers(speakers) == SortDesc(SelectSeq(speakers, IsActive))

\* args.speaker_id: the most recent active speaker, undefined when there is none
MostRecentSpeakerId(speakers) ==
    IF getActiveSpeakers(speakers) = << >> THEN Null
    ELSE getActiveSpeakers(speakers)[1].speakerId

InPair(pair, code) == pair.source = code \/ pair.target = code

Op(name, id, lang, res) ==
    [op |-> name, speakerId |-> id, language |-> lang, result |-> res]

NoOp == Op("none", Null, Null, NoDirection)

----------------------------------------------------------------------------
(* The inferring hook: src/src/app/hooks/useLanguagePair.ts *)

\* what the handler decided for one dispatch: the path it came by, whether the
\* translation API was called, and the direction
Decision(path, dir, outcome, reason) ==
    [path |-> path, outcome |-> outcome, reason |-> reason,
     source |-> dir.source, target |-> dir.target]

\* the dispatching handler before any event, and the props of the App
InitDispatch ==
    /\ shouldShowLanguageModal = TRUE
    /\ activeLanguages = <<DefaultSource, DefaultTarget>>
    /\ recentTranslations = << >>
    /\ inflight = {}
    /\ lastDispatch = Decision("none", NoDirection, "none", "")
    /\ handled = 0
    /\ invokedAt = << >>
    /\ messages = << >>
    /\ clientEvents = << >>
    /\ transcriptItems = << >>
    /\ speakerLanguages = << >>
    /\ timers = << >>
    /\ translatedItemIds = {}
    /\ languageDetectionCache = << >>
    /\ unhandledRejections = 0
    /\ delivered = {}
    /\ sessionStatus = "DISCONNECTED"
    /\ pcRef = Null
    /\ connecting = 0
    /\ speakerMap = << >>
    /\ speakerEvents = << >>

Init ==
    /\ lockedLanguagePair = Pair(DefaultSource, DefaultTarget)
    /\ activeSpeakers = << >>
    /\ lastDetectedLanguage = Null
    /\ now = 0
    /\ lastOp = NoOp
    /\ InitDispatch

\* time passes between two calls
Tick ==
    /\ now < MaxNow
    /\ now' = now + 1
    /\ lastOp' = Op("tick", Null, Null, NoDirection)
    /\ UNCHANGED <<hookVars, selVars>>

\* updateSpeakerActivity dropping the entry it deactivates
ActivityUpdatedRemoving(speakers, id, active) ==
    LET Kept(s) == active \/ s.speakerId # id IN
    [i \in 1..Len(SelectSeq(speakers, Kept)) |->
        IF SelectSeq(speakers, Kept)[i].speakerId = id
        THEN [SelectSeq(speakers, Kept)[i] EXCEPT !.isActive = active,
                                                  !.timestamp = now]
        ELSE SelectSeq(speakers, Kept)[i]]

\* the speaker list after updateSpeakerActivity
ActivityUpdated(speakers, id, active) ==
    [i \in 1..Len(speakers) |->
        IF speakers[i].speakerId = id
        THEN [speakers[i] EXCEPT !.isActive = active, !.timestamp = now]
        ELSE speakers[i]]

updateSpeakerActivity(id, active) ==
    /\ activeSpeakers' = ActivityUpdated(activeSpeakers, id, active)
    /\ lastOp' = Op("updateSpeakerActivity", id, Null, NoDirection)
    /\ UNCHANGED <<lockedLanguagePair, lastDetectedLanguage, now, selVars>>

\* handleNewSpeaker moving the language just heard to the source side
NewSpeakerPairReordering(pair, speakers, lang) ==
    IF pair # NoPair
    THEN Pair(lang, IF pair.target = lang THEN pair.source ELSE pair.target)
    ELSE Pair(lang, English)

\* the pair handleNewSpeaker leaves
NewSpeakerPair(pair, speakers, lang) ==
    IF FindLanguage(speakers, lang) # 0 THEN pair
    ELSE IF pair # NoPair
         THEN IF InPair(pair, lang) THEN pair
              ELSE Pair(lang, pair.target)
         ELSE Pair(lang, English)

\* the speaker list handleNewSpeaker leaves
NewSpeakerList(speakers, id, lang) ==
    LET k == FindLanguage(speakers, lang) IN
    IF k # 0
    THEN ActivityUpdated(speakers, speakers[k].speakerId, TRUE)
    ELSE Append(speakers, Speaker(id, lang, now, TRUE))

handleNewSpeaker(id, lang) ==
    /\ Len(NewSpeakerList(activeSpeakers, id, lang)) <= MaxSpeakers
    /\ lastDetectedLanguage' = lang
    /\ activeSpeakers' = NewSpeakerList(activeSpeakers, id, lang)
    /\ lockedLanguagePair' = NewSpeakerPair(lockedLanguagePair, activeSpeakers, lang)
    /\ lastOp' = Op("handleNewSpeaker", id, lang, NoDirection)
    /\ UNCHANGED <<now, selVars>>

\* the most recent active speaker other than id, as an index into the
\* sorted list, 0 when there is none
OtherActive(speakers, id) ==
    LET KeepOther(s) == s.isActive /\ s.speakerId # id
    IN SortDesc(SelectSeq(speakers, KeepOther))

\* getTranslationDirection answering source -> target on both sides
DirectionResultOneWay(pair, speakers, id) ==
    LET k == FindSpeaker(speakers, id) IN
    IF pair = NoPair \/ k = 0 THEN NoDirection
    ELSE IF InPair(pair, speakers[k].language) THEN Pair(pair.source, pair.target)
    ELSE IF OtherActive(speakers, id) # << >>
         THEN Pair(speakers[k].language, OtherActive(speakers, id)[1].language)
    ELSE Pair(speakers[k].language, pair.source)

\* the value getTranslationDirection returns
DirectionResult(pair, speakers, id) ==
    LET k == FindSpeaker(speakers, id) IN
    IF pair = NoPair THEN NoDirection
    ELSE IF k = 0 THEN NoDirection
    ELSE IF speakers[k].language = pair.source THEN Pair(pair.source, pair.target)
    ELSE IF speakers[k].language = pair.target THEN Pair(pair.target, pair.source)
    ELSE IF OtherActive(speakers, id) # << >>
         THEN Pair(speakers[k].language, OtherActive(speakers, id)[1].language)
    ELSE Pair(speakers[k].language, pair.source)

\* the pair getTranslationDirection leaves
DirectionPair(pair, speakers, id) ==
    LET k == FindSpeaker(speakers, id) IN
    IF pair = NoPair \/ k = 0 THEN pair
    ELSE IF InPair(pair, speakers[k].language) THEN pair
    ELSE IF OtherActive(speakers, id) # << >>
         THEN Pair(speakers[k].language, OtherActive(speakers, id)[1].language)
    ELSE pair

getTranslationDirection(id) ==
    /\ lockedLanguagePair' = DirectionPair(lockedLanguagePair, activeSpeakers, id)
    /\ lastOp' = Op("getTranslationDirection", id, Null,
                    DirectionResult(lockedLanguagePair, activeSpeakers, id))
    /\ UNCHANGED <<activeSpeakers, lastDetectedLanguage, now, selVars>>

\* the speaker list handleLanguageDetection leaves
DetectedList(speakers, id, lang) ==
    IF FindSpeaker(speakers, id) # 0
    THEN [i \in 1..Len(speakers) |->
            IF speakers[i].speakerId = id
            THEN Speaker(id, lang, now, TRUE)
            ELSE speakers[i]]
    ELSE Append(speakers, Speaker(id, lang, now, TRUE))

handleLanguageDetection(text, id) ==
    LET detectedLanguage == detectLanguage(text) IN
    /\ detectedLanguage # Null =>
            Len(DetectedList(activeSpeakers, id, detectedLanguage)) <= MaxSpeakers
    /\ lastOp' = Op("handleLanguageDetection", id, detectedLanguage, NoDirection)
    /\ IF detectedLanguage = Null
       THEN UNCHANGED <<activeSpeakers, lastDetectedLanguage>>
       ELSE /\ lastDetectedLanguage' = detectedLanguage
            /\ activeSpeakers' = DetectedList(activeSpeakers, id, detectedLanguage)
    /\ UNCHANGED <<lockedLanguagePair, now, selVars>>

Next ==
    \/ Tick
    \/ \E id \in SpeakerIds, active \in BOOLEAN : updateSpeakerActivity(id, active)
    \/ \E id \in SpeakerIds, lang \in Codes : handleNewSpeaker(id, lang)
    \/ \E id \in SpeakerIds : getTranslationDirection(id)
    \/ \E id \in SpeakerIds, text \in UtteranceTexts : handleLanguageDetection(text, id)

vars == <<lockedLanguagePair, activeSpeakers, lastDetectedLanguage, now, lastOp,
          shouldShowLanguageModal, activeLanguages, recentTranslations, inflight,
          lastDispatch, handled, invokedAt, messages, clientEvents, transcriptItems,
          speakerLanguages, timers, translatedItemIds, languageDetectionCache,
          unhandledRejections, delivered, sessionStatus, pcRef, connecting,
          speakerMap, speakerEvents>>

Spec == Init /\ [][Next]_vars

----------------------------------------------------------------------------
(* Properties of the inferring hook *)

Inverse(direction) == Pair(direction.target, direction.source)

\* the language of the speaker id, Null when the speaker is unknown
LanguageOf(speakers, id) ==
    IF FindSpeaker(speakers, id) = 0 THEN Null
    ELSE speakers[FindSpeaker(speakers, id)].language

\* C1: whenever a locked language pair is present, its source code differs
\* from its target code.
C1_PairCodesDiffer ==
    lockedLanguagePair # NoPair =>
        lockedLanguagePair.source # lockedLanguagePair.target

\* C5: with a pair locked, getTranslationDirection returns source -> target
\* for a speaker whose language is the pair's source and target -> source for
\* a speaker whose language is the pair's target; the call leaves the pair as
\* it is, and the direction of any speaker on the other side is the inverse.
C5_DirectionBySide ==
    [][ lastOp'.op = "getTranslationDirection" =>
        LET pair == lockedLanguagePair
            lang == LanguageOf(activeSpeakers, lastOp'.speakerId)
            res  == lastOp'.result
        IN  (pair # NoPair /\ lang # Null /\ InPair(pair, lang)) =>
            /\ lang = pair.source => res = Pair(pair.source, pair.target)
            /\ lang = pair.target => res = Pair(pair.target, pair.source)
            /\ lockedLanguagePair' = pair
            /\ \A other \in SpeakerIds :
                  LET otherLang == LanguageOf(activeSpeakers, other) IN
                  (InPair(pair, otherLang) /\ otherLang # lang) =>
                     DirectionResult(pair, activeSpeakers, other) = Inverse(res)
      ]_vars

\* C5 witness: a speaker on the target side of a pair of two different
\* languages was resolved to target -> source.
C5_Witness ==
    /\ lastOp.op = "getTranslationDirection"
    /\ lockedLanguagePair # NoPair
    /\ lockedLanguagePair.source # lockedLanguagePair.target
    /\ LanguageOf(activeSpeakers, lastOp.speakerId) = lockedLanguagePair.target
    /\ lastOp.result = Pair(lockedLanguagePair.target, lockedLanguagePair.source)
    /\ \E other \in SpeakerIds :
          LanguageOf(activeSpeakers, other) = lockedLanguagePair.source

\* C7: when a pair is locked and handleNewSpeaker is called with a language
\* matching neither side, the side most recently used stays in the pair and
\* the other side is replaced by the new language.
C7_KeepsMostRecentSide ==
    [][ lastOp'.op = "handleNewSpeaker" =>
        LET pair   == lockedLanguagePair
            lang   == lastOp'.language
            recent == IF getActiveSpeakers(activeSpeakers) = << >> THEN Null
                      ELSE getActiveSpeakers(activeSpeakers)[1].language
        IN  (pair # NoPair /\ ~InPair(pair, lang) /\ recent # Null
                /\ InPair(pair, recent)) =>
            /\ InPair(lockedLanguagePair', recent)
            /\ InPair(lockedLanguagePair', lang)
      ]_vars

\* C8: handleNewSpeaker with a language that is the locked pair's source or
\* target, and updateSpeakerActivity, leave the locked pair unchanged; every
\* speaker known before keeps its id and its language.
C8_InPairUtteranceKeepsPair ==
    [][ ( \/ /\ lastOp'.op = "handleNewSpeaker"
              /\ lockedLanguagePair # NoPair
              /\ InPair(lockedLanguagePair, lastOp'.language)
          \/ lastOp'.op = "updateSpeakerActivity" ) =>
        /\ lockedLanguagePair' = lockedLanguagePair
        /\ Len(activeSpeakers') >= Len(activeSpeakers)
        /\ \A i \in 1..Len(activeSpeakers) :
              /\ activeSpeakers'[i].speakerId = activeSpeakers[i].speakerId
              /\ activeSpeakers'[i].language = activeSpeakers[i].language
      ]_vars

\* C8 witness: the speaker heard last was heard again in the same language,
\* which is a side of the locked pair, at a later time.
C8_Witness ==
    /\ lastOp.op = "handleNewSpeaker"
    /\ lockedLanguagePair # NoPair
    /\ InPair(lockedLanguagePair, lastOp.language)
    /\ now > 0
    /\ \E i \in 1..Len(activeSpeakers) :
          /\ activeSpeakers[i].speakerId = lastOp.speakerId
          /\ activeSpeakers[i].language = lastOp.language
          /\ activeSpeakers[i].timestamp = now
    /\ Len(activeSpeakers) = 2

\* C9: as long as fewer than two distinct languages have been observed no
\* pair is locked and getTranslationDirection returns null.
C9_NoPairBeforeTwoLanguages ==
    Cardinality({activeSpeakers[i].language : i \in 1..Len(activeSpeakers)}) < 2 =>
        /\ lockedLanguagePair = NoPair
        /\ \A id \in SpeakerIds :
              DirectionResult(lockedLanguagePair, activeSpeakers, id) = NoDirection

\* C12: an update of the pair that would make the source code equal to the
\* target code is rejected: no step changes the locked pair to a pair whose two
\* codes are the same, the previous pair stays
C12_EqualCodesUpdateRejected ==
    [][lockedLanguagePair' # lockedLanguagePair
          => \/ lockedLanguagePair' = NoPair
             \/ lockedLanguagePair'.source # lockedLanguagePair'.target]_vars

\* C28: handleNewSpeaker with a language some known speaker has adds no
\* speaker, and the speaker it marks as having spoken is the most recently
\* active of the speakers with that language
C28_SameLanguageMostRecentSpeaker ==
    [][LET \* of the speakers with the language, is the k-th one the most
           \* recently active: none with the language has a later timestamp,
           \* or none of the active ones has while the k-th is active
           MostRecentlyActiveWith(speakers, lang, k) ==
               /\ speakers[k].language = lang
               /\ \/ \A i \in 1..Len(speakers) :
                        speakers[i].language = lang
                           => speakers[i].timestamp <= speakers[k].timestamp
                  \/ /\ speakers[k].isActive
                     /\ \A i \in 1..Len(speakers) :
                           (speakers[i].language = lang /\ speakers[i].isActive)
                              => speakers[i].timestamp <= speakers[k].timestamp
       IN
       \A id \in SpeakerIds, lang \in Codes :
          (handleNewSpeaker(id, lang) /\ FindLanguage(activeSpeakers, lang) # 0)
          => /\ Len(activeSpeakers') = Len(activeSpeakers)
             /\ \E k \in 1..Len(activeSpeakers) :
                   /\ MostRecentlyActiveWith(activeSpeakers, lang, k)
                   /\ activeSpeakers' =
                         ActivityUpdated(activeSpeakers, activeSpeakers[k].speakerId,
                                         TRUE)]_vars

\* C24: no two entries of the speaker list have the same speakerId
C24_SpeakerIdUnique ==
    \A i, j \in 1..Len(activeSpeakers) :
        activeSpeakers[i].speakerId = activeSpeakers[j].speakerId => i = j

----------------------------------------------------------------------------
(* The selecting hook: useLanguagePair of src/unnamed/part_001, lines 1-192. *)
(* Its state is one store: the pair the modal sets is the pair the handler   *)
(* reads.                                                                    *)

\* what LanguageSelectionModal hands to onClose: the target list leaves out
\* the chosen source; null when the modal is cancelled
Selectable == {"zh", "en"}

Selections ==
    {Pair(s, t) : s \in Selectable, t \in Selectable} \ {Pair(c, c) : c \in Selectable}

MaxTicks == 2

\* Date.now() at the k-th instant the model observes: one millisecond inside
\* the suppression window, its end, and instants past the retention period
ClockAt(k) ==
    CASE k = 0 -> 1
      [] k = 1 -> 3000
      [] k = 2 -> 3001
      [] OTHER -> 3001 + (k - 2) * 300001

InitSel ==
    /\ lockedLanguagePair = NoPair
    /\ activeSpeakers = << >>
    /\ lastDetectedLanguage = Null
    /\ now = ClockAt(0)
    /\ lastOp = NoOp
    /\ InitDispatch

\* setLanguagePair clearing the pair when it is given null
setLanguagePairClearing(pair) ==
    /\ IF pair # NoPair
       THEN /\ activeSpeakers' = << >>
            /\ lockedLanguagePair' = pair
            /\ shouldShowLanguageModal' = FALSE
            /\ activeLanguages' = <<pair.source, pair.target>>
       ELSE /\ lockedLanguagePair' = NoPair
            /\ UNCHANGED <<activeSpeakers, shouldShowLanguageModal, activeLanguages>>
    /\ UNCHANGED <<lastOp, appVars>>
    /\ UNCHANGED <<lastDetectedLanguage, now, dispatchVars>>

\* setLanguagePair, and the effect of the App that copies a new pair into
\* activeLanguages
setLanguagePair(pair) ==
    /\ IF pair # NoPair
       THEN /\ activeSpeakers' = << >>
            /\ lockedLanguagePair' = pair
            /\ shouldShowLanguageModal' = FALSE
            /\ activeLanguages' = <<pair.source, pair.target>>
       ELSE UNCHANGED <<activeSpeakers, lockedLanguagePair, shouldShowLanguageModal,
                        activeLanguages>>
    /\ UNCHANGED <<lastOp, appVars>>
    /\ UNCHANGED <<lastDetectedLanguage, now, dispatchVars>>

resetLanguagePair ==
    /\ lockedLanguagePair' = NoPair
    /\ shouldShowLanguageModal' = TRUE
    /\ UNCHANGED <<lastOp, appVars>>
    /\ UNCHANGED <<activeSpeakers, lastDetectedLanguage, now, activeLanguages, dispatchVars>>

\* handleNewSpeaker of the selecting hook taking a language outside the pair
\* the way the inferring hook does: the new language becomes the source
handleNewSpeakerSelInferring(id, lang) ==
    /\ UNCHANGED <<lastOp, appVars>>
    /\ IF lockedLanguagePair = NoPair
       THEN UNCHANGED <<activeSpeakers, lastDetectedLanguage, lockedLanguagePair>>
       ELSE IF ~InPair(lockedLanguagePair, lang)
       THEN /\ lockedLanguagePair' = Pair(lang, lockedLanguagePair.target)
            /\ UNCHANGED <<activeSpeakers, lastDetectedLanguage>>
       ELSE /\ lastDetectedLanguage' = lang
            /\ activeSpeakers' = DetectedList(activeSpeakers, id, lang)
            /\ UNCHANGED lockedLanguagePair
    /\ UNCHANGED <<now, selVars>>

\* handleNewSpeaker of the selecting hook
handleNewSpeakerSel(id, lang) ==
    /\ UNCHANGED <<lastOp, appVars>>
    /\ IF lockedLanguagePair = NoPair \/ ~InPair(lockedLanguagePair, lang)
       THEN UNCHANGED <<activeSpeakers, lastDetectedLanguage>>
       ELSE /\ lastDetectedLanguage' = lang
            /\ activeSpeakers' = DetectedList(activeSpeakers, id, lang)
    /\ UNCHANGED <<lockedLanguagePair, now, selVars>>

\* the value getTranslationDirection of the selecting hook returns
DirectionResultSel(pair, speakers, id) ==
    LET k == FindSpeaker(speakers, id) IN
    IF pair = NoPair THEN NoDirection
    ELSE IF k = 0 THEN Pair(pair.source, pair.target)
    ELSE IF speakers[k].language = pair.source THEN Pair(pair.source, pair.target)
    ELSE IF speakers[k].language = pair.target THEN Pair(pair.target, pair.source)
    ELSE Pair(pair.source, pair.target)

getTranslationDirectionSel(id) ==
    /\ lastOp' = Op("getTranslationDirection", id, Null,
                    DirectionResultSel(lockedLanguagePair, activeSpeakers, id))
    /\ UNCHANGED <<hookVars, now, selVars>>

\* the language handleLanguageDetection of the selecting hook returns
DetectionResultSel(pair, speakers, id) ==
    LET k == FindSpeaker(speakers, id) IN
    IF pair = NoPair THEN Null
    ELSE IF k # 0
         THEN IF InPair(pair, speakers[k].language) THEN speakers[k].language
              ELSE pair.source
    ELSE pair.source

handleLanguageDetectionSel(text, id) ==
    /\ lastOp' = Op("handleLanguageDetection", id, detectLanguage(text), NoDirection)
    /\ IF lockedLanguagePair # NoPair /\ FindSpeaker(activeSpeakers, id) = 0
       THEN activeSpeakers' =
                Append(activeSpeakers, Speaker(id, lockedLanguagePair.source, now, TRUE))
       ELSE UNCHANGED activeSpeakers
    /\ UNCHANGED <<lockedLanguagePair, lastDetectedLanguage, now, selVars>>

----------------------------------------------------------------------------
(* Properties of getTranslationDirection, of either hook *)

\* C19: with a pair locked, getTranslationDirection called with a speaker id
\* that is not in the registry returns the default direction, the pair's
\* source -> the pair's target
C19_UnknownSpeakerDefaultDirection ==
    [][\A id \in SpeakerIds :
          (getTranslationDirection(id) \/ getTranslationDirectionSel(id)) =>
          ((/\ lockedLanguagePair # NoPair
            /\ FindSpeaker(activeSpeakers, id) = 0)
           => lastOp'.result =
                 Pair(lockedLanguagePair.source, lockedLanguagePair.target))]_vars

\* C20: with a pair locked, getTranslationDirection called for a known
\* speaker whose language is neither side of the pair returns the pair's
\* source -> the pair's target
C20_OutOfPairSpeakerDefaultDirection ==
    [][\A id \in SpeakerIds :
          (getTranslationDirection(id) \/ getTranslationDirectionSel(id)) =>
          LET lang == LanguageOf(activeSpeakers, id) IN
          ((/\ lockedLanguagePair # NoPair
            /\ lang # Null
            /\ ~InPair(lockedLanguagePair, lang))
           => lastOp'.result =
                 Pair(lockedLanguagePair.source, lockedLanguagePair.target))]_vars

----------------------------------------------------------------------------
(* Text of the dispatching handler *)

EmptyText == << >>
Inaudible == <<"[", "i", "n", "a", "u", "d", "i", "b", "l", "e", "]">>
Transcribing ==
    <<"[", "T", "r", "a", "n", "s", "c", "r", "i", "b", "i", "n", "g", ".", ".", ".", "]">>
Hello == <<"h", "i">>
HelloSpaced == <<"h", " ", "i">>
OkText == <<"o", "k">>

\* the characters of a language code
CodeChars(code) ==
    CASE code = "en" -> <<"e", "n">>
      [] code = "zh" -> <<"z", "h">>
      [] code = "ko" -> <<"k", "o">>
      [] OTHER -> <<"n", "u", "l", "l">>

\* the template `[${source} -> ${target}] ${text}` of addMessage's content
Formatted(source, target, text) ==
    <<"[">> \o CodeChars(source) \o <<" ", Arrow, " ">> \o CodeChars(target)
        \o <<"]", " ">> \o text

\* a text with the marker: the content of a translation the handler emitted
MarkedText == Formatted("en", "zh", OkText)

\* text[from..to] is one or more word characters: \w of a JavaScript
\* regular expression is a letter, a digit or the underscore
IsWord(text, from, to) ==
    /\ from <= to
    /\ \A i \in from..to : text[i] \in LatinLower \cup {"H", "T", "1", "_"}

\* text.match(/\[\w+ -> \w+\]/): the marker anywhere in the text
MatchesMarker(text) ==
    \E open \in 1..Len(text), sp \in 1..Len(text), close \in 1..Len(text) :
        /\ text[open] = "["
        /\ IsWord(text, open + 1, sp - 1)
        /\ sp + 2 <= Len(text)
        /\ text[sp] = " " /\ text[sp + 1] = Arrow /\ text[sp + 2] = " "
        /\ IsWord(text, sp + 3, close - 1)
        /\ text[close] = "]"

isTranslationMessage(text) ==
    IF text = EmptyText THEN FALSE ELSE MatchesMarker(text)

NotWhiteSpace(c) == c # " "

HashPrefixLen == 20

\* the text hash taken over the whole text
TextHashWholeText(text) ==
    IF text = EmptyText THEN EmptyText ELSE SelectSeq(text, NotWhiteSpace)

\* textToTranslate.substring(0, 20).replace(/\s+/g, '')
TextHash(text) ==
    IF text = EmptyText THEN EmptyText
    ELSE SelectSeq(SubSeq(text, 1, IF Len(text) < HashPrefixLen THEN Len(text)
                                    ELSE HashPrefixLen), NotWhiteSpace)

\* `${textHash}:${sourceLang}->${targetLang}`
TranslationKey(text, source, target) ==
    TextHash(text) \o <<":">> \o CodeChars(source) \o <<Arrow>> \o CodeChars(target)

DedupWindowMs == 3000
RetentionMs == 5 * 60 * 1000

----------------------------------------------------------------------------
(* The dispatching handler: useHandleServerEvent with translateAndSpeak *)

MaxDispatches == 2

\* time passes
TickMs ==
    /\ \E k \in 1..MaxTicks : ClockAt(k) > now /\ now' = ClockAt(k)
    /\ UNCHANGED <<hookVars, lastOp, selVars>>

\* a call of the translation API that has not settled; args are the arguments
\* a translate_text call arrived with
Task(n, path, text, dir, id, args) ==
    [n |-> n, path |-> path, text |-> text,
     source |-> dir.source, target |-> dir.target, speakerId |-> id, args |-> args]

\* translateAndSpeak calling the translation API whatever the languages
translateAndSpeakFetchesAlways(sourceLang, targetLang) == TRUE

\* translateAndSpeak: does the call reach the translation API
translateAndSpeakFetches(sourceLang, targetLang) == sourceLang # targetLang

\* the speaking of a translation: translateAndSpeak(translated, target, target)
SpeakDecision(task) ==
    IF translateAndSpeakFetches(task.target, task.target)
    THEN Decision("tts", Pair(task.target, task.target), "invoked", "")
    ELSE Decision("tts", Pair(task.target, task.target), "skipped", "same-language")

SpeakTasks(task) ==
    IF translateAndSpeakFetches(task.target, task.target)
    THEN {Task(task.n, "tts", OkText, Pair(task.target, task.target), task.speakerId,
               Null)}
    ELSE {}

\* addMessage of a translation
TranslationMessage(task) ==
    [role |-> "assistant", content |-> Formatted(task.source, task.target, OkText)]

\* window._recentTranslations never suppressing
IsRecentDuplicateNever(recent, key, t) == FALSE

\* window._recentTranslations suppressing for as long as the entry is kept
IsRecentDuplicateWhileKept(recent, key, t) ==
    /\ key \in DOMAIN recent
    /\ recent[key] # 0
    /\ t - recent[key] < RetentionMs

\* window._recentTranslations has the key with a timestamp inside the window
IsRecentDuplicate(recent, key, t) ==
    /\ key \in DOMAIN recent
    /\ recent[key] # 0
    /\ t - recent[key] < DedupWindowMs

\* set, and nothing dropped
RecordedKeepingAll(recent, key, t) == (key :> t) @@ recent

\* set, then drop the entries older than the retention period
Recorded(recent, key, t) ==
    LET set == (key :> t) @@ recent
        kept == {k \in DOMAIN set : ~(set[k] < t - RetentionMs)}
    IN [k \in kept |-> set[k]]

\* the direction handleFunctionCall gives a translate_text call
FunctionDirection(pair, langs, argSource) ==
    IF pair # NoPair
    THEN IF argSource = pair.source THEN Pair(pair.source, pair.target)
         ELSE IF argSource = pair.target THEN Pair(pair.target, pair.source)
         ELSE Pair(pair.source, pair.target)
    ELSE IF Len(langs) >= 2
    THEN IF argSource = langs[1] THEN Pair(langs[1], langs[2])
         ELSE IF argSource = langs[2] THEN Pair(langs[2], langs[1])
         ELSE Pair(langs[1], langs[2])
    ELSE NoDirection

\* arguments the model's translate_text calls carry
FunctionCalls ==
    {[text |-> Hello, source_language |-> "en", target_language |-> "en"],
     [text |-> MarkedText, source_language |-> "en", target_language |-> "en"],
     [text |-> HelloSpaced, source_language |-> "ko", target_language |-> "en"]}

Transcriptions == {EmptyText, Inaudible, Transcribing, Hello, MarkedText}

Responses == {EmptyText, Hello, MarkedText}

\* handleFunctionCall for translate_text, up to the call of the tool
FunctionCallHandled(args) ==
    LET key == TranslationKey(args.text, args.source_language, args.target_language)
        dir == FunctionDirection(lockedLanguagePair, activeLanguages,
                                 args.source_language)
        sent == IF dir # NoDirection THEN dir
                ELSE Pair(args.source_language, args.target_language)
    IN
    /\ handled < MaxDispatches
    /\ handled' = handled + 1
    /\ IF IsRecentDuplicate(recentTranslations, key, now)
       THEN /\ lastDispatch' = Decision("function", NoDirection, "skipped", "duplicate")
            /\ clientEvents' = Append(clientEvents, "response.create")
            /\ UNCHANGED <<recentTranslations, inflight, invokedAt>>
       ELSE /\ recentTranslations' = Recorded(recentTranslations, key, now)
            /\ IF dir # NoDirection /\ dir.source = dir.target
               THEN /\ lastDispatch' =
                          Decision("function", dir, "skipped", "same-language")
                    /\ UNCHANGED <<inflight, invokedAt, clientEvents>>
               ELSE /\ lastDispatch' =
                          Decision("function", sent, "invoked",
                                   IF dir # NoDirection THEN "" ELSE "fallback")
                    /\ inflight' =
                          inflight \cup {Task(handled + 1, "function", args.text, sent,
                                              Null, args)}
                    /\ invokedAt' = (args :> now) @@ invokedAt
                    /\ UNCHANGED clientEvents
    /\ UNCHANGED <<hookVars, appVars, now, lastOp, shouldShowLanguageModal, activeLanguages,
                   messages>>

\* handleFunctionCall called on its own
handleFunctionCall(args) ==
    /\ FunctionCallHandled(args)
    /\ UNCHANGED eventVars

FnResults == {"translated", "untranslated", "thrown"}

\* handleFunctionCall from the point where the tool's promise settles
FnSettles(task, result) ==
    /\ task \in inflight
    /\ task.path = "function"
    /\ IF result = "translated"
       THEN /\ messages' = Append(messages, TranslationMessage(task))
            /\ lastDispatch' = SpeakDecision(task)
            /\ inflight' = (inflight \ {task}) \cup SpeakTasks(task)
       ELSE /\ inflight' = inflight \ {task}
            /\ UNCHANGED <<messages, lastDispatch>>
    /\ clientEvents' =
          IF result = "thrown" THEN Append(clientEvents, "response.create")
          ELSE clientEvents \o <<"conversation.item.create", "response.create">>
    /\ UNCHANGED <<hookVars, appVars, now, lastOp, shouldShowLanguageModal, activeLanguages,
                   recentTranslations, handled, invokedAt, eventVars>>

\* the direction handleAudioTranscriptionComplete translates an utterance in
UtteranceDirection(pair, speakers, langs, id) ==
    LET k == FindSpeaker(speakers, id) IN
    IF pair # NoPair
    THEN IF k # 0
         THEN IF speakers[k].language = pair.source
              THEN Pair(pair.source, pair.target)
              ELSE IF speakers[k].language = pair.target
              THEN Pair(pair.target, pair.source)
              ELSE Pair(pair.source, pair.target)
         ELSE Pair(pair.source, pair.target)
    ELSE IF Len(langs) >= 2 THEN Pair(langs[1], langs[2])
    ELSE NoDirection

\* handleResponseDone translating in the direction of the utterance
ReplyDirectionSame(pair, speakers, langs, id) ==
    UtteranceDirection(pair, speakers, langs, id)

\* the direction handleResponseDone translates the assistant's reply in
ReplyDirection(pair, speakers, langs, id) ==
    LET k == FindSpeaker(speakers, id) IN
    IF pair # NoPair
    THEN IF k # 0
         THEN IF speakers[k].language = pair.source
              THEN Pair(pair.target, pair.source)
              ELSE IF speakers[k].language = pair.target
              THEN Pair(pair.source, pair.target)
              ELSE Pair(pair.target, pair.source)
         ELSE Pair(pair.target, pair.source)
    ELSE IF Len(langs) >= 2 THEN Pair(langs[2], langs[1])
    ELSE NoDirection

\* the checks both handlers and translateAndSpeak make before the translation
\* API is called: the reason to skip, or ""
SkipReason(pair, langs, dir) ==
    IF pair # NoPair /\ pair.source = pair.target THEN "same-language"
    ELSE IF pair = NoPair /\ Len(langs) >= 2 /\ langs[1] = langs[2]
    THEN "same-language"
    ELSE IF dir = NoDirection THEN "no-direction"
    ELSE IF dir.source = dir.target THEN "same-language"
    ELSE IF ~translateAndSpeakFetches(dir.source, dir.target) THEN "same-language"
    ELSE ""

\* what is common to the two handlers once the text passed their filters
Translate(path, text, id, dir) ==
    LET reason == SkipReason(lockedLanguagePair, activeLanguages, dir) IN
    IF reason # ""
    THEN /\ lastDispatch' = Decision(path, dir, "skipped", reason)
         /\ UNCHANGED inflight
    ELSE /\ lastDispatch' = Decision(path, dir, "invoked", "")
         /\ inflight' = inflight \cup {Task(handled + 1, path, text, dir, id, Null)}

TranscriptionHandled(transcription, speakerId) ==
    /\ handled < MaxDispatches
    /\ handled' = handled + 1
    /\ IF transcription = EmptyText \/ transcription = Inaudible
          \/ transcription = Transcribing
       THEN /\ lastDispatch' =
                  Decision("transcription", NoDirection, "skipped", "invalid")
            /\ UNCHANGED inflight
       ELSE IF isTranslationMessage(transcription)
       THEN /\ lastDispatch' =
                  Decision("transcription", NoDirection, "skipped", "marker")
            /\ UNCHANGED inflight
       ELSE Translate("transcription", transcription, speakerId,
                      UtteranceDirection(lockedLanguagePair, activeSpeakers,
                                         activeLanguages, speakerId))
    /\ UNCHANGED <<hookVars, appVars, now, lastOp, shouldShowLanguageModal, activeLanguages,
                   recentTranslations, invokedAt, messages, clientEvents>>

\* handleAudioTranscriptionComplete called on its own
handleAudioTranscriptionComplete(transcription, speakerId) ==
    /\ TranscriptionHandled(transcription, speakerId)
    /\ UNCHANGED eventVars

handleResponseDone(response, speakerId) ==
    /\ handled < MaxDispatches
    /\ handled' = handled + 1
    /\ IF response = EmptyText
       THEN /\ lastDispatch' = Decision("reply", NoDirection, "skipped", "invalid")
            /\ UNCHANGED inflight
       ELSE IF isTranslationMessage(response)
       THEN /\ lastDispatch' = Decision("reply", NoDirection, "skipped", "marker")
            /\ UNCHANGED inflight
       ELSE Translate("reply", response, speakerId,
                      ReplyDirection(lockedLanguagePair, activeSpeakers,
                                     activeLanguages, speakerId))
    /\ UNCHANGED <<hookVars, appVars, now, lastOp, shouldShowLanguageModal, activeLanguages,
                   recentTranslations, invokedAt, messages, clientEvents, eventVars>>

FetchResults == {"content", "blank", "failed"}

\* a handler from the point where translateAndSpeak's promise settles
TranslateAndSpeakSettles(task, result) ==
    /\ task \in inflight
    /\ task.path # "function"
    /\ IF result = "content" /\ task.path # "tts"
       THEN /\ messages' = Append(messages, TranslationMessage(task))
            /\ lastDispatch' = SpeakDecision(task)
            /\ inflight' = (inflight \ {task}) \cup SpeakTasks(task)
       ELSE /\ inflight' = inflight \ {task}
            /\ UNCHANGED <<messages, lastDispatch>>
    /\ UNCHANGED <<hookVars, appVars, now, lastOp, shouldShowLanguageModal, activeLanguages,
                   recentTranslations, handled, invokedAt, clientEvents, eventVars>>

\* the selecting hook with every path of the handler, within one instant
NextSel ==
    \/ \E pair \in Selections \cup {NoPair} : setLanguagePair(pair)
    \/ \E id \in SpeakerIds, lang \in Codes : handleNewSpeakerSel(id, lang)
    \/ \E args \in FunctionCalls : handleFunctionCall(args)
    \/ \E task \in inflight, result \in FnResults : FnSettles(task, result)
    \/ \E text \in Transcriptions, id \in SpeakerIds :
          handleAudioTranscriptionComplete(text, id)
    \/ \E text \in Responses, id \in SpeakerIds : handleResponseDone(text, id)
    \/ \E task \in inflight, result \in FetchResults :
          TranslateAndSpeakSettles(task, result)

SpecSel == InitSel /\ [][NextSel]_vars

\* the translate_text path of the handler as time passes
NextFn ==
    \/ TickMs
    \/ \E pair \in Selections \cup {NoPair} : setLanguagePair(pair)
    \/ \E args \in FunctionCalls : handleFunctionCall(args)
    \/ \E task \in inflight, result \in FnResults : FnSettles(task, result)

SpecFn == InitSel /\ [][NextFn]_vars

----------------------------------------------------------------------------
(* The selecting hook on its own, every call of its interface *)

NextHook ==
    \/ TickMs
    \/ \E pair \in Selections \cup {NoPair} : setLanguagePair(pair)
    \/ resetLanguagePair
    \/ \E id \in SpeakerIds, active \in BOOLEAN : updateSpeakerActivity(id, active)
    \/ \E id \in SpeakerIds, lang \in Codes : handleNewSpeakerSel(id, lang)
    \/ \E id \in SpeakerIds : getTranslationDirectionSel(id)
    \/ \E id \in SpeakerIds, text \in UtteranceTexts : handleLanguageDetectionSel(text, id)

SpecHook == InitSel /\ [][NextHook]_vars

\* C11: the locked pair goes from present to absent only in a step of
\* resetLanguagePair: no utterance, no query of the direction, no passing of
\* time and no setLanguagePair(null) clears it
C11_OnlyResetClearsPair ==
    [][(lockedLanguagePair # NoPair /\ lockedLanguagePair' = NoPair)
          => resetLanguagePair]_vars

\* a pair was selected, a speaker was heard in one of its languages, and the
\* pair was reset: the speakers stay, the pair is absent, the modal is open
C11_Witness ==
    /\ lockedLanguagePair = NoPair
    /\ shouldShowLanguageModal
    /\ Len(activeSpeakers) > 0

\* C21: once a pair is selected, an utterance in a language outside the pair
\* leaves the pair as it was, whether it comes by handleNewSpeaker (which
\* also leaves the registry) or by handleLanguageDetection, and the pair
\* changes only in a step of setLanguagePair or of resetLanguagePair
C21_SelectedPairNotInferred ==
    [][/\ \A id \in SpeakerIds, lang \in Codes :
             (/\ handleNewSpeakerSel(id, lang)
              /\ lockedLanguagePair # NoPair
              /\ ~InPair(lockedLanguagePair, lang))
             => UNCHANGED <<lockedLanguagePair, activeSpeakers>>
       /\ \A id \in SpeakerIds, text \in UtteranceTexts :
             handleLanguageDetectionSel(text, id) => UNCHANGED lockedLanguagePair
       /\ (lockedLanguagePair # NoPair /\ lockedLanguagePair' # lockedLanguagePair)
             => \/ \E pair \in Selections : setLanguagePair(pair)
                \/ resetLanguagePair]_vars

\* a pair is selected and an utterance in a language outside it was just
\* given to handleLanguageDetection
C21_Witness ==
    /\ lockedLanguagePair # NoPair
    /\ lastOp.op = "handleLanguageDetection"
    /\ lastOp.language # Null
    /\ ~InPair(lockedLanguagePair, lastOp.language)

----------------------------------------------------------------------------
(* Properties of the dispatching handler *)

\* C2: a translate_text call whose (text, source, target) are those of a call
\* that was passed to the translation tool less than the suppression window
\* earlier is skipped: the tool is not invoked again, also when the first
\* invocation has not settled yet
C2_DuplicateWithinWindowSkipped ==
    [][\A args \in FunctionCalls :
          (/\ handleFunctionCall(args)
           /\ args \in DOMAIN invokedAt
           /\ now - invokedAt[args] < DedupWindowMs)
          => /\ inflight' = inflight
             /\ invokedAt' = invokedAt
             /\ lastDispatch'.outcome = "skipped"
             /\ lastDispatch'.reason = "duplicate"]_vars

\* the second of two identical calls came 2999 ms after the first, which is
\* still in flight, and was skipped
C2_Witness ==
    /\ handled = 2
    /\ now = ClockAt(1)
    /\ lastDispatch = Decision("function", NoDirection, "skipped", "duplicate")
    /\ \E task \in inflight :
          /\ task.n = 1
          /\ task.path = "function"
          /\ invokedAt[task.args] = ClockAt(0)
    /\ Cardinality(inflight) = 1

C34_DirectionQueryPure ==
    [][\A id \in SpeakerIds :
          (getTranslationDirection(id) \/ getTranslationDirectionSel(id))
          => /\ lockedLanguagePair' = lockedLanguagePair
             /\ activeSpeakers' = activeSpeakers]_vars

C4_MarkerNeverTranslated ==
    \A task \in inflight : ~isTranslationMessage(task.text)

\* C17: every translated message given to the message sink has the role
\* assistant and the content "[source -> target] text" with the codes of the
\* call that produced it, so isTranslationMessage recognises it; and a text
\* that is the content of an emitted translation is skipped when it comes back
\* on any dispatch path
C17_EmittedTranslationsMarked ==
    [][/\ Len(messages') > Len(messages) =>
             \E task \in inflight \ inflight' :
                 /\ messages' =
                       Append(messages,
                              [role |-> "assistant",
                               content |-> Formatted(task.source, task.target, OkText)])
                 /\ isTranslationMessage(messages'[Len(messages')].content)
       /\ \A i \in 1..Len(messages) :
             /\ \A id \in SpeakerIds :
                   ( \/ handleAudioTranscriptionComplete(messages[i].content, id)
                     \/ handleResponseDone(messages[i].content, id) )
                   => (lastDispatch'.outcome = "skipped" /\ inflight' = inflight)
             /\ \A args \in FunctionCalls :
                   (handleFunctionCall(args) /\ args.text = messages[i].content)
                   => (lastDispatch'.outcome = "skipped" /\ inflight' = inflight)]_vars

\* C22: every call of the translation collaborator a handler starts is made
\* while a pair is locked and carries the pair's two languages as its source
\* and target, in one of the two orders
C22_InvocationsWithinLockedPair ==
    [][\A task \in inflight' \ inflight :
          task.path # "tts" =>
             /\ lockedLanguagePair # NoPair
             /\ \/ Pair(task.source, task.target) = lockedLanguagePair
                \/ Pair(task.source, task.target) = Inverse(lockedLanguagePair)]_vars

----------------------------------------------------------------------------
(* handleServerEvent of src/unnamed/part_001, lines 1676-1905: the server    *)
(* events that lead to a translation.  The App passes languagesDetected =    *)
(* true.                                                                     *)

\* the transcripts of the transcription-completed events
EventTranscripts == {EmptyText, Hello}

\* the arguments of the translate_text calls of the response.done events
EventCalls ==
    {[text |-> Hello, source_language |-> "en", target_language |-> "en"],
     [text |-> EmptyText, source_language |-> "en", target_language |-> "zh"]}

TranscriptionEvent(itemId, transcript) ==
    [type |-> "conversation.item.input_audio_transcription.completed",
     item_id |-> itemId, transcript |-> transcript]

FunctionCallEvent(args) == [type |-> "response.done", arguments |-> args]

\* detectAndCacheLanguage: is the text one it skips
IsInvalidText(text) ==
    text = EmptyText \/ text = Inaudible \/ text = Transcribing

\* detectAndCacheLanguage: the language it returns
DetectedAndCached(cache, pair, langs, text) ==
    IF IsInvalidText(text) THEN Null
    ELSE IF text \in DOMAIN cache THEN cache[text]
    ELSE IF pair # NoPair /\ Len(langs) = 2 THEN pair.source
    ELSE Null

\* detectAndCacheLanguage: the cache it leaves
CacheAfter(cache, pair, langs, text) ==
    IF IsInvalidText(text) \/ text \in DOMAIN cache THEN cache
    ELSE IF pair # NoPair /\ Len(langs) = 2 THEN (text :> pair.source) @@ cache
    ELSE cache

\* the speakers handleNewSpeaker of the selecting hook leaves
NewSpeakerListSel(pair, speakers, id, lang) ==
    IF pair = NoPair \/ ~InPair(pair, lang) THEN speakers
    ELSE DetectedList(speakers, id, lang)

\* the case conversation.item.input_audio_transcription.completed
TranscriptionCompleted(itemId, transcript) ==
    LET finalTranscript == IF transcript = EmptyText THEN Inaudible ELSE transcript
        detectedLanguage ==
            IF finalTranscript # Inaudible /\ ~isTranslationMessage(finalTranscript)
            THEN DetectedAndCached(languageDetectionCache, lockedLanguagePair,
                                   activeLanguages, finalTranscript)
            ELSE Null
        k == FindLanguage(activeSpeakers, detectedLanguage)
        speakerId == IF k # 0 THEN activeSpeakers[k].speakerId ELSE itemId
        speakers ==
            IF k # 0 THEN ActivityUpdated(activeSpeakers, speakerId, TRUE)
            ELSE NewSpeakerListSel(lockedLanguagePair, activeSpeakers, itemId,
                                   detectedLanguage)
        direction == DirectionResultSel(lockedLanguagePair, speakers, speakerId)
    IN
    /\ handled + Len(timers) < MaxDispatches
    /\ delivered' = delivered \cup {TranscriptionEvent(itemId, transcript)}
    /\ IF detectedLanguage = Null
       THEN UNCHANGED <<activeSpeakers, lastDetectedLanguage, languageDetectionCache,
                        timers>>
       ELSE /\ activeSpeakers' = speakers
            /\ lastDetectedLanguage' =
                  IF k = 0 /\ lockedLanguagePair # NoPair
                        /\ InPair(lockedLanguagePair, detectedLanguage)
                  THEN detectedLanguage ELSE lastDetectedLanguage
            /\ languageDetectionCache' =
                  CacheAfter(languageDetectionCache, lockedLanguagePair,
                             activeLanguages, finalTranscript)
            /\ timers' =
                  IF direction # NoDirection /\ direction.source # direction.target
                  THEN Append(timers, [transcription |-> finalTranscript,
                                       speakerId |-> speakerId])
                  ELSE timers
    /\ UNCHANGED <<lockedLanguagePair, now, lastOp, appVars, shouldShowLanguageModal,
                   activeLanguages, recentTranslations, inflight, lastDispatch,
                   handled, invokedAt, messages, clientEvents, translatedItemIds,
                   unhandledRejections>>

\* the callback held back until every translation in flight has settled
TimerFiresAfterTranslations ==
    /\ inflight = {}
    /\ timers # << >>
    /\ timers' = Tail(timers)
    /\ TranscriptionHandled(Head(timers).transcription, Head(timers).speakerId)
    /\ UNCHANGED <<translatedItemIds, languageDetectionCache, unhandledRejections,
                   delivered>>

\* the callback of setTimeout(..., 0): handleAudioTranscriptionComplete
TimerFires ==
    /\ timers # << >>
    /\ timers' = Tail(timers)
    /\ TranscriptionHandled(Head(timers).transcription, Head(timers).speakerId)
    /\ UNCHANGED <<translatedItemIds, languageDetectionCache, unhandledRejections,
                   delivered>>

\* the case response.done with one translate_text call in its output
ResponseDone(args) ==
    LET \* `${functionCall.name}:${JSON.stringify(args)}`, args with the
        \* speaker_id
        callWithArgsKey ==
            <<"translate_text", args, MostRecentSpeakerId(activeSpeakers)>>
    IN
    /\ handled + Len(timers) < MaxDispatches
    /\ delivered' = delivered \cup {FunctionCallEvent(args)}
    /\ IF callWithArgsKey \in translatedItemIds
       THEN /\ handled' = handled + 1
            /\ lastDispatch' =
                  Decision("function", NoDirection, "skipped", "processed")
            /\ UNCHANGED <<hookVars, appVars, now, lastOp, shouldShowLanguageModal,
                           activeLanguages, recentTranslations, inflight, invokedAt,
                           messages, clientEvents, translatedItemIds>>
       ELSE /\ translatedItemIds' = translatedItemIds \cup {callWithArgsKey}
            /\ FunctionCallHandled(args)
    /\ UNCHANGED <<timers, languageDetectionCache, unhandledRejections>>

NextEv ==
    \/ \E pair \in Selections \cup {NoPair} : setLanguagePair(pair)
    \/ \E id \in SpeakerIds, transcript \in EventTranscripts :
          TranscriptionCompleted(id, transcript)
    \/ TimerFires
    \/ \E args \in EventCalls : ResponseDone(args)
    \/ \E task \in inflight, result \in FnResults : FnSettles(task, result)
    \/ \E task \in inflight, result \in FetchResults :
          TranslateAndSpeakSettles(task, result)

SpecEv == InitSel /\ [][NextEv]_vars

\* C14: a server event that is delivered again is dropped: the second
\* delivery of a transcription-completed event schedules no translation of
\* the transcript, the second delivery of a function-call event passes nothing
\* to the translation tool and appends no message
C14_RedeliveredEventDropped ==
    [][/\ \A id \in SpeakerIds, transcript \in EventTranscripts :
             (/\ TranscriptionCompleted(id, transcript)
              /\ TranscriptionEvent(id, transcript) \in delivered)
             => timers' = timers
       /\ \A args \in EventCalls :
             (ResponseDone(args) /\ FunctionCallEvent(args) \in delivered)
             => (inflight' = inflight /\ messages' = messages)]_vars

\* C15: event handling never waits for a translation: whatever is in flight,
\* every server event can be handled at once (as long as the model's count of
\* events allows one more) and a scheduled callback can run
C15_EventsNeverWait ==
    /\ handled + Len(timers) < MaxDispatches =>
          /\ \A id \in SpeakerIds, transcript \in EventTranscripts :
                ENABLED TranscriptionCompleted(id, transcript)
          /\ \A args \in EventCalls : ENABLED ResponseDone(args)
    /\ timers # << >> => ENABLED TimerFires

\* the translation of a transcript and a translate_text call are in flight
\* together: the second event was handled while the translation of the first
\* had not settled
C15_Witness ==
    \E first \in inflight, second \in inflight :
        /\ first.n = 1
        /\ second.n = 2
        /\ first.path # "tts"
        /\ second.path # "tts"
        /\ first.path # second.path

\* C16: the translation collaborator is never called with an empty text or
\* with a placeholder ("[inaudible]", "[Transcribing...]"), whichever path
\* the text came by
C16_NoPlaceholderTranslated ==
    \A task \in inflight : ~IsInvalidText(task.text)

\* C18: while no pair is locked, getTranslationDirection returns null for
\* every speaker id, and no translation is attempted: no step schedules the
\* translation of a transcript or adds a call of the translation collaborator
C18_NoPairNoTranslation ==
    [][lockedLanguagePair = NoPair =>
          /\ \A id \in SpeakerIds :
                /\ DirectionResultSel(lockedLanguagePair, activeSpeakers, id)
                      = NoDirection
                /\ DirectionResult(lockedLanguagePair, activeSpeakers, id)
                      = NoDirection
          /\ timers' = timers
          /\ inflight' \subseteq inflight]_vars

----------------------------------------------------------------------------
(* The keys of the translate_text calls: handleFunctionCall of               *)
(* src/unnamed/part_001, lines 1056-1110                                     *)

\* a text of 21 characters: twenty times "a", then the given character
LongText(last) == [i \in 1..(HashPrefixLen + 1) |-> IF i <= HashPrefixLen THEN "a" ELSE last]

\* translate_text calls that agree or differ in each part of the key: texts
\* that differ after the 20th character, texts that differ in white space,
\* and calls that differ in the source or in the target only
KeyCalls ==
    {[text |-> LongText("b"), source_language |-> "en", target_language |-> "zh"],
     [text |-> LongText("c"), source_language |-> "en", target_language |-> "zh"],
     [text |-> Hello, source_language |-> "en", target_language |-> "zh"],
     [text |-> HelloSpaced, source_language |-> "en", target_language |-> "zh"],
     [text |-> Hello, source_language |-> "zh", target_language |-> "en"],
     [text |-> Hello, source_language |-> "en", target_language |-> "ko"]}

\* handleFunctionCall called for a translate_text call, the call noted
TranslateTextCalled(args) ==
    /\ FunctionCallHandled(args)
    /\ delivered' = delivered \cup {FunctionCallEvent(args)}
    /\ UNCHANGED <<timers, translatedItemIds, languageDetectionCache,
                   unhandledRejections>>

\* the suppression of translate_text calls by their keys
NextKey ==
    \/ TickMs
    \/ \E pair \in Selections \cup {NoPair} : setLanguagePair(pair)
    \/ \E args \in KeyCalls : TranslateTextCalled(args)

SpecKey == InitSel /\ [][NextKey]_vars

\* C32: two translate_text requests are the same request exactly when their
\* keys are equal: a call is skipped as a duplicate exactly when a call with
\* an equal key was recorded less than 3000 ms earlier, whatever the rest of
\* its text, and calls with different keys never suppress one another; the
\* key of a request is the first 20 characters of its text with the white
\* space removed, its source code and its target code
C32_SameRequestIffSameKey ==
    [][LET First20(text) ==
               SubSeq(text, 1, IF Len(text) < 20 THEN Len(text) ELSE 20)
           RequestKey(a) ==
               <<SelectSeq(First20(a.text), NotWhiteSpace), a.source_language,
                 a.target_language>>
       IN  \A args \in KeyCalls :
              TranslateTextCalled(args) =>
                 (lastDispatch'.reason = "duplicate"
                    <=> \E a \in DOMAIN invokedAt :
                           /\ RequestKey(a) = RequestKey(args)
                           /\ now - invokedAt[a] < DedupWindowMs)]_vars

\* two calls whose texts differ only after the 20th character came within
\* the window: one was passed to the tool, the other skipped as a duplicate
C32_Witness ==
    /\ handled = 2
    /\ lastDispatch.reason = "duplicate"
    /\ Cardinality(inflight) = 1
    /\ Cardinality(DOMAIN invokedAt) = 1
    /\ delivered =
          {FunctionCallEvent([text |-> LongText(last), source_language |-> "en",
                              target_language |-> "zh"]) : last \in {"b", "c"}}

----------------------------------------------------------------------------
(* The histories the handler keeps on window, as time passes the retention   *)
(* period: window._recentTranslations and window._translatedItemIds of       *)
(* src/unnamed/part_001                                                      *)

\* how many half retention periods the clock passes
MaxHalfWindows == 3

\* half a retention period passes
TickHalfWindow ==
    /\ now < MaxHalfWindows * (RetentionMs \div 2)
    /\ now' = now + RetentionMs \div 2
    /\ UNCHANGED <<hookVars, lastOp, selVars>>

NextCache ==
    \/ TickHalfWindow
    \/ \E args \in EventCalls : ResponseDone(args)
    \/ \E task \in inflight, result \in FnResults : FnSettles(task, result)

SpecCache == InitSel /\ [][NextCache]_vars

\* C33: window._recentTranslations is pruned on insert and only there: once
\* a step has recorded an entry the map holds no entry older than the
\* retention period (5 minutes), so that every key it holds was recorded
\* within the period, and no step other than the handling of a call changes
\* the map
C33_RecentTranslationsPrunedOnInsert ==
    [][recentTranslations' # recentTranslations
          => /\ \E args \in EventCalls : ResponseDone(args)
             /\ \A key \in DOMAIN recentTranslations' :
                   now - recentTranslations'[key] <= RetentionMs]_vars

\* a call was recorded, more than the retention period passed, and the
\* recording of another call dropped the first entry
C33_Witness ==
    \E old \in DOMAIN invokedAt, new \in DOMAIN invokedAt :
        LET KeyOf(a) ==
                TranslationKey(a.text, a.source_language, a.target_language)
        IN
        /\ now - invokedAt[old] > RetentionMs
        /\ KeyOf(old) \notin DOMAIN recentTranslations
        /\ invokedAt[new] = now
        /\ KeyOf(new) \in DOMAIN recentTranslations
        /\ recentTranslations[KeyOf(new)] = now

----------------------------------------------------------------------------
(* The function calls of a response.done event: handleServerEvent of         *)
(* src/unnamed/part_001, lines 1826-1896.  The arguments of a call arrive    *)
(* as a JSON text; JSON.parse gives an object whose properties keep the      *)
(* order of the text, and JSON.stringify writes them in that order.  An      *)
(* object is the sequence of its <<name, value>> properties.                 *)

\* the objects the arguments of the calls parse to: the same three properties
\* in two orders, and a call with another text
ArgumentObjects ==
    {<< <<"text", Hello>>, <<"source_language", "en">>, <<"target_language", "zh">> >>,
     << <<"source_language", "en">>, <<"text", Hello>>, <<"target_language", "zh">> >>,
     << <<"text", OkText>>, <<"source_language", "en">>, <<"target_language", "zh">> >>}

MaxOutputs == 2

\* response.output: up to MaxOutputs output items of type function_call
Outputs ==
    LET OutputItem ==
            [name : {"translate_text"}, call_id : {"call_1", "call_2"},
             arguments : ArgumentObjects]
    IN UNION {[1..n -> OutputItem] : n \in 1..MaxOutputs}

\* object[name]
Property(object, name) ==
    LET k == FirstIndex({i \in 1..Len(object) : object[i][1] = name})
    IN IF k = 0 THEN Null ELSE object[k][2]

\* args.speaker_id = speakerId: an own property keeps its place, a new one
\* comes last
WithSpeakerId(object, speakerId) ==
    IF speakerId = Null THEN object
    ELSE IF Property(object, "speaker_id") # Null
    THEN [i \in 1..Len(object) |->
            IF object[i][1] = "speaker_id" THEN <<"speaker_id", speakerId>>
            ELSE object[i]]
    ELSE Append(object, <<"speaker_id", speakerId>>)

\* JSON.stringify(args): the properties in their order
JsonStringify(object) == object

\* the Map the calls of one batch are collected in, keyed by name and
\* call_id: a later item with the key of an earlier one takes its place
RECURSIVE CollectedCalls(_)
CollectedCalls(outputs) ==
    IF outputs = << >> THEN << >>
    ELSE LET n     == Len(outputs)
             last  == outputs[n]
             front == CollectedCalls(SubSeq(outputs, 1, n - 1))
             k     == FirstIndex({i \in 1..Len(front) :
                                     /\ front[i].name = last.name
                                     /\ front[i].call_id = last.call_id})
         IN IF k = 0 THEN Append(front, last)
            ELSE [front EXCEPT ![k] = last]

\* handleFunctionCall for translate_text, up to the call of the tool, on the
\* state the earlier calls of the batch left
AfterFunctionCall(st, args) ==
    LET key == TranslationKey(args.text, args.source_language, args.target_language)
        dir == FunctionDirection(lockedLanguagePair, activeLanguages,
                                 args.source_language)
        sent == IF dir # NoDirection THEN dir
                ELSE Pair(args.source_language, args.target_language)
        counted == [st EXCEPT !.handled = st.handled + 1]
    IN
    IF IsRecentDuplicate(st.recent, key, now)
    THEN [counted EXCEPT
            !.lastDispatch = Decision("function", NoDirection, "skipped", "duplicate"),
            !.clientEvents = Append(st.clientEvents, "response.create")]
    ELSE IF dir # NoDirection /\ dir.source = dir.target
    THEN [counted EXCEPT
            !.recent = Recorded(st.recent, key, now),
            !.lastDispatch = Decision("function", dir, "skipped", "same-language")]
    ELSE [counted EXCEPT
            !.recent = Recorded(st.recent, key, now),
            !.lastDispatch = Decision("function", sent, "invoked",
                                      IF dir # NoDirection THEN "" ELSE "fallback"),
            !.inflight = st.inflight \cup
                            {Task(st.handled + 1, "function", args.text, sent, Null,
                                  args)},
            !.invokedAt = (args :> now) @@ st.invokedAt]

\* the loop over the collected calls
RECURSIVE AfterCalls(_, _)
AfterCalls(st, calls) ==
    IF calls = << >> THEN st
    ELSE LET object == WithSpeakerId(Head(calls).arguments,
                                     MostRecentSpeakerId(activeSpeakers))
             \* `${functionCall.name}:${JSON.stringify(args)}`
             key    == <<Head(calls).name, JsonStringify(object)>>
             \* the arguments handleFunctionCall reads
             args   == [text |-> Property(object, "text"),
                        source_language |-> Property(object, "source_language"),
                        target_language |-> Property(object, "target_language")]
         IN IF key \in st.ids THEN AfterCalls(st, Tail(calls))
            ELSE AfterCalls(AfterFunctionCall([st EXCEPT !.ids = st.ids \cup {key}],
                                              args),
                            Tail(calls))

\* the case response.done with the function calls of its output
ResponseDoneBatch(outputs) ==
    LET \* the handler's state before the calls of the batch are gone through
        before ==
            [ids |-> translatedItemIds, recent |-> recentTranslations,
             inflight |-> inflight, handled |-> handled, invokedAt |-> invokedAt,
             lastDispatch |-> lastDispatch, clientEvents |-> clientEvents]
        after == AfterCalls(before, CollectedCalls(outputs))
    IN
    /\ handled + Len(CollectedCalls(outputs)) <= MaxDispatches
    /\ translatedItemIds' = after.ids
    /\ recentTranslations' = after.recent
    /\ inflight' = after.inflight
    /\ handled' = after.handled
    /\ invokedAt' = after.invokedAt
    /\ lastDispatch' = after.lastDispatch
    /\ clientEvents' = after.clientEvents
    /\ UNCHANGED <<hookVars, appVars, now, lastOp, shouldShowLanguageModal,
                   activeLanguages, messages, timers, languageDetectionCache,
                   unhandledRejections, delivered>>

NextBatch ==
    \/ TickMs
    \/ \E pair \in Selections \cup {NoPair} : setLanguagePair(pair)
    \/ \E id \in SpeakerIds, lang \in Codes : handleNewSpeakerSel(id, lang)
    \/ \E outputs \in Outputs : ResponseDoneBatch(outputs)

SpecBatch == InitSel /\ [][NextBatch]_vars

\* C36: a function call with the same name and the same arguments, the
\* attributed speaker id among them, is handled at most once: a step hands a
\* call to handleFunctionCall only if no call with that name and those
\* arguments was handled before, in this batch or in an earlier event,
\* whatever time has passed, and it hands over as many calls as it marks
C36_SameCallHandledOnce ==
    [][LET new == translatedItemIds' \ translatedItemIds
           \* the name and the arguments of a handled call, whatever the
           \* order the arguments were written in
           CallOf(key) == <<key[1], {key[2][i] : i \in 1..Len(key[2])}>>
       IN
       /\ handled' - handled = Cardinality(new)
       /\ \A key \in new :
             CallOf(key) \notin {CallOf(old) : old \in translatedItemIds}
       /\ \A first \in new, second \in new :
             CallOf(first) = CallOf(second) => first = second]_vars

----------------------------------------------------------------------------
(* The translate_text path of src/src/app/hooks/useHandleServerEvent.ts,    *)
(* lines 637-1201, over the inferring hook                                   *)

\* the function call of a response.done event: handleFunctionCall for
\* translate_text, up to the call of the tool
handleFunctionCallB(args) ==
    LET id  == MostRecentSpeakerId(activeSpeakers)
        dir == DirectionResult(lockedLanguagePair, activeSpeakers, id)
    IN
    /\ handled < MaxDispatches
    /\ handled' = handled + 1
    /\ lockedLanguagePair' = DirectionPair(lockedLanguagePair, activeSpeakers, id)
    /\ lastOp' = Op("handleFunctionCall", id, Null, dir)
    /\ IF dir # NoDirection
       THEN /\ lastDispatch' = Decision("function", dir, "invoked", "")
            /\ inflight' =
                  inflight \cup {Task(handled + 1, "function", args.text, dir, id, args)}
       ELSE /\ lastDispatch' =
                  Decision("function", NoDirection, "skipped", "no-direction")
            /\ UNCHANGED inflight
    /\ UNCHANGED <<activeSpeakers, lastDetectedLanguage, now, appVars,
                   shouldShowLanguageModal, activeLanguages, recentTranslations,
                   invokedAt, messages, clientEvents, eventVars>>

\* handleFunctionCall from the point where the tool's promise settles: nothing
\* catches a rejection, neither here nor in handleServerEvent
FnSettlesB(task, result) ==
    /\ task \in inflight
    /\ task.path = "function"
    /\ inflight' = inflight \ {task}
    /\ IF result = "thrown"
       THEN /\ unhandledRejections' = unhandledRejections + 1
            /\ UNCHANGED clientEvents
       ELSE /\ clientEvents' =
                  clientEvents \o <<"conversation.item.create", "response.create">>
            /\ UNCHANGED unhandledRejections
    /\ UNCHANGED <<hookVars, now, lastOp, appVars, shouldShowLanguageModal,
                   activeLanguages, recentTranslations, lastDispatch, handled,
                   invokedAt, messages, timers, translatedItemIds,
                   languageDetectionCache, delivered>>

NextB ==
    \/ Tick
    \/ \E id \in SpeakerIds, lang \in Codes : handleNewSpeaker(id, lang)
    \/ \E args \in FunctionCalls : handleFunctionCallB(args)
    \/ \E task \in inflight, result \in FnResults : FnSettlesB(task, result)

SpecB == Init /\ [][NextB]_vars

\* C35: every translate_text call that has been handled to its end has sent
\* response.create, whether the tool answered, threw, the call was skipped as
\* a duplicate or had no direction: one response.create per handled call,
\* but for the calls whose tool has not settled yet
C35_EveryCallSendsResponseCreate ==
    Cardinality({i \in 1..Len(clientEvents) : clientEvents[i] = "response.create"})
       = handled - Cardinality({task \in inflight : task.path = "function"})

\* C13: when the translation collaborator throws or rejects, the error is
\* caught where the translation was dispatched, on every path: no rejection
\* is left unhandled, no translated message is emitted, the locked pair and
\* the speakers are unchanged, the request leaves the calls in flight and no
\* new call is made for it
C13_CollaboratorFailureCaught ==
    [][\A task \in inflight :
          ( \/ FnSettlesB(task, "thrown")
            \/ FnSettles(task, "thrown")
            \/ TranslateAndSpeakSettles(task, "failed") )
          => /\ unhandledRejections' = unhandledRejections
             /\ messages' = messages
             /\ hookVars' = hookVars
             /\ inflight' = inflight \ {task}
             /\ handled' = handled]_vars

----------------------------------------------------------------------------
(* The speaker-sequence effect of the App: src/src/app/App.tsx *)

MaxItems == 2

\* detectLanguage of the App
AppDetectLanguage(text) ==
    IF text = EmptyText \/ text = Inaudible \/ text = Transcribing THEN Null
    ELSE IF TestClass(CjkIdeograph, text) THEN "zh"
    ELSE IF TestClass(Hangul, text) THEN "ko"
    ELSE IF TestClass(Cyrillic, text) THEN "ru"
    ELSE "en"

\* `${message.role}-${prefix}`, prefix being itemId.split('-')[0]
AppSpeakerId(role, itemId) ==
    <<role, IF itemId = "translation-a" THEN "translation" ELSE itemId>>

Items ==
    [itemId : {"a", "b", "translation-a"}, type : {"MESSAGE"},
     role : {"user", "assistant"},
     title : {<<"zhong">>, Hello, Transcribing, MarkedText}, createdAtMs : 0..MaxNow]

\* the filter of the effect: original messages of users
IsOriginalUserMessage(item) ==
    /\ item.type = "MESSAGE"
    /\ item.role = "user"
    /\ item.title # EmptyText
    /\ item.title # Transcribing
    /\ item.title # Inaudible
    /\ item.itemId # "translation-a"    \* !itemId.startsWith("translation-")
    /\ ~isTranslationMessage(item.title)

\* insert x into a sequence sorted by createdAtMs ascending, after its equals
RECURSIVE InsertAsc(_, _)
InsertAsc(x, sorted) ==
    IF sorted = << >> THEN <<x>>
    ELSE IF Head(sorted).createdAtMs <= x.createdAtMs
         THEN <<Head(sorted)>> \o InsertAsc(x, Tail(sorted))
         ELSE <<x>> \o sorted

\* Array.prototype.sort((a, b) => a.createdAtMs - b.createdAtMs): stable
RECURSIVE SortAsc(_)
SortAsc(seq) ==
    IF seq = << >> THEN << >>
    ELSE LET n == Len(seq) IN InsertAsc(seq[n], SortAsc(SubSeq(seq, 1, n - 1)))

\* the loop of the effect over the messages in chronological order
RECURSIVE ProcessMessages(_, _)
ProcessMessages(msgs, speakers) ==
    IF msgs = << >> THEN speakers
    ELSE LET message == Head(msgs)
             detectedLang == AppDetectLanguage(message.title)
             speakerId == AppSpeakerId(message.role, message.itemId)
             existingIndex == FindSpeaker(speakers, speakerId)
         IN
         IF detectedLang = Null THEN ProcessMessages(Tail(msgs), speakers)
         ELSE IF existingIndex = 0
         THEN ProcessMessages(Tail(msgs),
                  Append(speakers, [speakerId |-> speakerId, language |-> detectedLang,
                                    timestamp |-> message.createdAtMs]))
         ELSE ProcessMessages(Tail(msgs),
                  [speakers EXCEPT ![existingIndex].timestamp = message.createdAtMs])

\* setActiveLanguages([mostRecent.language, secondMostRecent.language])
EffectLanguages(sortedSpeakers) ==
    <<sortedSpeakers[1].language, sortedSpeakers[2].language>>

\* the effect run on the transcript items
SpeakerSequenceEffect(items) ==
    LET messageItems == SelectSeq(items, IsOriginalUserMessage)
        newSpeakerLanguages == ProcessMessages(SortAsc(messageItems), speakerLanguages)
        languagesChanged == Len(newSpeakerLanguages) > Len(speakerLanguages)
        sortedSpeakers == SortDesc(newSpeakerLanguages)
    IN
    /\ speakerLanguages' = newSpeakerLanguages
    /\ IF /\ languagesChanged
          /\ Len(sortedSpeakers) >= 2
          /\ sortedSpeakers[1].language # sortedSpeakers[2].language
       THEN activeLanguages' = EffectLanguages(sortedSpeakers)
       ELSE UNCHANGED activeLanguages

\* the transcript context adding an item: an item id is added once
AddTranscriptItem(items, item) ==
    IF \E i \in 1..Len(items) : items[i].itemId = item.itemId THEN items
    ELSE Append(items, item)

\* an item is added to the transcript at the current time, and the effect runs
TranscriptItemAdded(item) ==
    /\ Len(transcriptItems) < MaxItems
    /\ item.createdAtMs = now
    /\ transcriptItems' = AddTranscriptItem(transcriptItems, item)
    /\ SpeakerSequenceEffect(transcriptItems')
    /\ lastOp' = Op("TranscriptItemAdded", Null, Null, NoDirection)
    /\ UNCHANGED <<hookVars, now, shouldShowLanguageModal, dispatchVars,
                   sessionStatus, connVars, ctxVars>>

NextApp ==
    \/ Tick
    \/ \E item \in Items : TranscriptItemAdded(item)

SpecApp == Init /\ [][NextApp]_vars

\* C10: when two languages have been observed for the first time, the source
\* is the language of the earlier speaker and the target the language of the
\* more recent one
C10_FirstPairSourceIsEarlier ==
    [][(/\ Len(speakerLanguages) = 1
        /\ Len(speakerLanguages') = 2
        /\ speakerLanguages'[1].language # speakerLanguages'[2].language
        /\ speakerLanguages'[1].timestamp < speakerLanguages'[2].timestamp)
       => activeLanguages' =
             <<speakerLanguages'[1].language, speakerLanguages'[2].language>>]_vars

----------------------------------------------------------------------------
(* The SpeakerProvider: src/src/app/contexts/SpeakerContext.tsx.  Its        *)
(* useLanguagePair is the inferring hook.                                    *)

\* the longest speakerEvents list: a dispatch that would append to a full list
\* is not taken
MaxEvents == 3

SpeakerInfo(id, lang, ts, active) ==
    [speakerId |-> id, language |-> lang, lastSpoken |-> ts, isActive |-> active]

SpeakerEvent(id, lang, ts, type) ==
    [speakerId |-> id, language |-> lang, timestamp |-> ts, type |-> type]

\* Map.prototype.get: the place of the key, 0 when the Map does not have it
MapIndex(map, id) ==
    FirstIndex({i \in 1..Len(map) : map[i].speakerId = id})

\* Map.prototype.set: a key the Map has keeps its place, a new key goes last
MapSet(map, info) ==
    LET k == MapIndex(map, info.speakerId) IN
    IF k = 0 THEN Append(map, info) ELSE [map EXCEPT ![k] = info]

SpeakerAction(type, id, lang) == [type |-> type, speakerId |-> id, language |-> lang]

SpeakerState(map, events) == [speakerMap |-> map, speakerEvents |-> events]

\* the UPDATE_SPEAKER case: { ...existingSpeaker, language, lastSpoken }
UpdatedSpeaker(existingSpeaker, language) ==
    [existingSpeaker EXCEPT !.language = language, !.lastSpoken = now]

speakerReducer(state, action) ==
    LET k == MapIndex(state.speakerMap, action.speakerId) IN
    CASE action.type = "ADD_SPEAKER" ->
            SpeakerState(
                MapSet(state.speakerMap,
                       SpeakerInfo(action.speakerId, action.language, now, TRUE)),
                Append(state.speakerEvents,
                       SpeakerEvent(action.speakerId, action.language, now, "new")))
      [] action.type = "UPDATE_SPEAKER" ->
            IF k # 0
            THEN SpeakerState(
                    MapSet(state.speakerMap,
                           UpdatedSpeaker(state.speakerMap[k], action.language)),
                    Append(state.speakerEvents,
                           SpeakerEvent(action.speakerId, action.language, now,
                                        "update")))
            ELSE state
      [] action.type = "SET_INACTIVE" ->
            IF k # 0
            THEN SpeakerState(
                    MapSet(state.speakerMap,
                           [state.speakerMap[k] EXCEPT !.isActive = FALSE]),
                    Append(state.speakerEvents,
                           SpeakerEvent(action.speakerId,
                                        state.speakerMap[k].language, now,
                                        "inactive")))
            ELSE state
      [] action.type = "CLEAR_SPEAKERS" -> SpeakerState(<< >>, << >>)
      [] OTHER -> state

\* dispatch of useReducer
Dispatch(action) ==
    LET state == speakerReducer(SpeakerState(speakerMap, speakerEvents), action) IN
    /\ Len(state.speakerEvents) <= MaxEvents
    /\ speakerMap' = state.speakerMap
    /\ speakerEvents' = state.speakerEvents

\* what no call of the provider touches
ctxFrame ==
    <<now, shouldShowLanguageModal, activeLanguages, dispatchVars, transcriptItems,
      speakerLanguages, sessionStatus, connVars>>

\* addSpeaker: the dispatch, then handleNewSpeaker of the provider's hook
addSpeaker(id, lang) ==
    /\ Dispatch(SpeakerAction("ADD_SPEAKER", id, lang))
    /\ Len(NewSpeakerList(activeSpeakers, id, lang)) <= MaxSpeakers
    /\ lastDetectedLanguage' = lang
    /\ activeSpeakers' = NewSpeakerList(activeSpeakers, id, lang)
    /\ lockedLanguagePair' = NewSpeakerPair(lockedLanguagePair, activeSpeakers, lang)
    /\ lastOp' = Op("addSpeaker", id, lang, NoDirection)
    /\ UNCHANGED ctxFrame

updateSpeaker(id, lang) ==
    /\ Dispatch(SpeakerAction("UPDATE_SPEAKER", id, lang))
    /\ lastOp' = Op("updateSpeaker", id, lang, NoDirection)
    /\ UNCHANGED <<hookVars, ctxFrame>>

setSpeakerInactive(id) ==
    /\ Dispatch(SpeakerAction("SET_INACTIVE", id, Null))
    /\ lastOp' = Op("setSpeakerInactive", id, Null, NoDirection)
    /\ UNCHANGED <<hookVars, ctxFrame>>

clearSpeakers ==
    /\ Dispatch(SpeakerAction("CLEAR_SPEAKERS", Null, Null))
    /\ lastOp' = Op("clearSpeakers", Null, Null, NoDirection)
    /\ UNCHANGED <<hookVars, ctxFrame>>

\* getActiveSpeakers of the provider: the entries of the Map that are active,
\* in the Map's order
getActiveSpeakersOfMap(map) == SelectSeq(map, IsActive)

NextCtx ==
    \/ Tick
    \/ \E id \in SpeakerIds, lang \in Codes : addSpeaker(id, lang)
    \/ \E id \in SpeakerIds, lang \in Codes : updateSpeaker(id, lang)
    \/ \E id \in SpeakerIds : setSpeakerInactive(id)
    \/ clearSpeakers

SpecCtx == Init /\ [][NextCtx]_vars

----------------------------------------------------------------------------
(* Properties of the speaker registry *)

\* the speaker ids either registry knows
KnownIds(speakers, map) ==
    {speakers[i].speakerId : i \in 1..Len(speakers)}
        \cup {map[i].speakerId : i \in 1..Len(map)}

\* C25 as stated: in no step does a known speaker id leave the registry
C25_RegistryNeverShrinks ==
    [][KnownIds(activeSpeakers, speakerMap)
          \subseteq KnownIds(activeSpeakers', speakerMap')]_vars

\* C25: a deactivation keeps every entry and leaves the speaker inactive, and
\* a known speaker id leaves the registry only when the registry is reset as
\* a whole, by the selection of a pair or by CLEAR_SPEAKERS
C25_EntriesLeaveOnlyOnReset ==
    [][/\ \A id \in SpeakerIds :
             /\ updateSpeakerActivity(id, FALSE)
                   => /\ KnownIds(activeSpeakers', speakerMap')
                            = KnownIds(activeSpeakers, speakerMap)
                      /\ \A i \in 1..Len(activeSpeakers') :
                            activeSpeakers'[i].speakerId = id
                               => ~activeSpeakers'[i].isActive
             /\ setSpeakerInactive(id)
                   => /\ KnownIds(activeSpeakers', speakerMap')
                            = KnownIds(activeSpeakers, speakerMap)
                      /\ \A i \in 1..Len(speakerMap') :
                            speakerMap'[i].speakerId = id
                               => ~speakerMap'[i].isActive
       /\ ~(KnownIds(activeSpeakers, speakerMap)
               \subseteq KnownIds(activeSpeakers', speakerMap'))
             => \/ \E pair \in Selections : setLanguagePair(pair)
                \/ clearSpeakers]_vars

\* a known speaker was just deactivated: its entry is there, inactive
C25_Witness ==
    /\ lastOp.op = "updateSpeakerActivity"
    /\ \E i \in 1..Len(activeSpeakers) :
          /\ activeSpeakers[i].speakerId = lastOp.speakerId
          /\ ~activeSpeakers[i].isActive

\* C26: the pair and the registry are reset together: a selection sets the
\* new pair and empties the speaker list, an explicit reset clears the pair
\* and empties the speaker list, and the registry is emptied in no other step
C26_PairAndRegistryResetTogether ==
    [][/\ \A pair \in Selections :
             setLanguagePair(pair)
                => lockedLanguagePair' = pair /\ activeSpeakers' = << >>
       /\ resetLanguagePair
             => lockedLanguagePair' = NoPair /\ activeSpeakers' = << >>
       /\ (\/ activeSpeakers # << >> /\ activeSpeakers' = << >>
           \/ speakerMap # << >> /\ speakerMap' = << >>)
             => \/ \E pair \in Selections : setLanguagePair(pair)
                \/ resetLanguagePair]_vars

\* C27: getActiveSpeakers returns exactly the active speakers, the most
\* recently spoken first: of the hook by timestamp, of the provider by
\* lastSpoken
C27_ActiveSpeakersMostRecentFirst ==
    LET ofHook == getActiveSpeakers(activeSpeakers)
        ofMap  == getActiveSpeakersOfMap(speakerMap)
        \* the entries of seq are exactly the entries of all that are active,
        \* each as often as it is there
        ExactlyTheActive(seq, all) ==
            /\ \A i \in 1..Len(seq) : seq[i].isActive
            /\ \A x \in {all[i] : i \in 1..Len(all)}
                         \cup {seq[i] : i \in 1..Len(seq)} :
                  Cardinality({i \in 1..Len(seq) : seq[i] = x})
                     = Cardinality({i \in 1..Len(all) : all[i] = x /\ x.isActive})
    IN
    /\ ExactlyTheActive(ofHook, activeSpeakers)
    /\ \A i, j \in 1..Len(ofHook) :
          i < j => ofHook[i].timestamp >= ofHook[j].timestamp
    /\ ExactlyTheActive(ofMap, speakerMap)
    /\ \A i, j \in 1..Len(ofMap) :
          i < j => ofMap[i].lastSpoken >= ofMap[j].lastSpoken

\* C23: an upsert leaves the registry with an active entry for the speaker
\* id that has the given language and the current timestamp: ADD_SPEAKER and
\* handleLanguageDetection whether or not the id was known, UPDATE_SPEAKER for
\* an id that was known, active or not
C23_UpsertActivates ==
    [][LET \* the registry has an active entry for id with the language,
           \* stamped now
           UpsertedInMap(map, id, lang) ==
               LET k == MapIndex(map, id) IN
               /\ k # 0
               /\ map[k].language = lang
               /\ map[k].lastSpoken = now
               /\ map[k].isActive
           UpsertedInList(speakers, id, lang) ==
               LET k == FindSpeaker(speakers, id) IN
               /\ k # 0
               /\ speakers[k].language = lang
               /\ speakers[k].timestamp = now
               /\ speakers[k].isActive
       IN
       \A id \in SpeakerIds :
          /\ \A lang \in Codes :
                /\ addSpeaker(id, lang) => UpsertedInMap(speakerMap', id, lang)
                /\ (updateSpeaker(id, lang) /\ MapIndex(speakerMap, id) # 0)
                      => UpsertedInMap(speakerMap', id, lang)
          /\ \A text \in UtteranceTexts :
                (handleLanguageDetection(text, id) /\ detectLanguage(text) # Null)
                   => UpsertedInList(activeSpeakers', id, detectLanguage(text))]_vars

----------------------------------------------------------------------------
(* The transcription path of src/src/app/hooks/useHandleServerEvent.ts,     *)
(* lines 637-1201, over the inferring hook, with the session of             *)
(* src/src/app/App.tsx.  The App passes languagesDetected = true.           *)
(*                                                                          *)
(* A callback reads the state of the render that created it: the setters    *)
(* of useState queue their writes, and lockedLanguagePair and               *)
(* activeSpeakers keep their values until the callback has returned.        *)

\* how many calls of connectToRealtime await at a time
MaxAttempts == 2

\* connectToRealtime, called while the session is disconnected (the effect
\* on selectedAgentName, onToggleConnection), up to its first await
connectToRealtime ==
    /\ sessionStatus = "DISCONNECTED"
    /\ connecting < MaxAttempts
    /\ sessionStatus' = "CONNECTING"
    /\ connecting' = connecting + 1
    /\ lastOp' = Op("connectToRealtime", Null, Null, NoDirection)
    /\ UNCHANGED <<hookVars, now, shouldShowLanguageModal, activeLanguages,
                   dispatchVars, transcriptItems, speakerLanguages, pcRef, ctxVars>>

\* connectToRealtime from the point where fetchEphemeralKey finds no key or
\* createRealtimeConnection rejects: the status is set back
ConnectionFails ==
    /\ connecting > 0
    /\ connecting' = connecting - 1
    /\ sessionStatus' = "DISCONNECTED"
    /\ lastOp' = Op("connectToRealtime failed", Null, Null, NoDirection)
    /\ UNCHANGED <<hookVars, now, shouldShowLanguageModal, activeLanguages,
                   dispatchVars, transcriptItems, speakerLanguages, pcRef, ctxVars>>

\* connectToRealtime from the point where createRealtimeConnection resolves:
\* the peer connection is installed and the data channel listened to; the
\* channel has not delivered session.created yet
ConnectionEstablished ==
    /\ connecting > 0
    /\ connecting' = connecting - 1
    /\ pcRef' = "connected"
    /\ lastOp' = Op("connectToRealtime resolved", Null, Null, NoDirection)
    /\ UNCHANGED <<hookVars, now, shouldShowLanguageModal, activeLanguages,
                   dispatchVars, transcriptItems, speakerLanguages, sessionStatus,
                   ctxVars>>

\* the case session.created, the first event of an installed connection
SessionCreated ==
    /\ pcRef = "connected"
    /\ pcRef' = "session"
    /\ sessionStatus' = "CONNECTED"
    /\ lastOp' = Op("session.created", Null, Null, NoDirection)
    /\ UNCHANGED <<hookVars, now, shouldShowLanguageModal, activeLanguages,
                   dispatchVars, transcriptItems, speakerLanguages, connecting,
                   ctxVars>>

\* disconnectFromRealtime, called by onToggleConnection while the session is
\* connected or connecting: the installed peer connection is closed and the
\* status set; nothing is done about a connectToRealtime that is awaiting,
\* the callbacks scheduled or the translations in flight
disconnectFromRealtime ==
    /\ sessionStatus \in {"CONNECTED", "CONNECTING"}
    /\ sessionStatus' = "DISCONNECTED"
    /\ pcRef' = Null
    /\ lastOp' = Op("disconnectFromRealtime", Null, Null, NoDirection)
    /\ UNCHANGED <<hookVars, now, shouldShowLanguageModal, activeLanguages,
                   dispatchVars, transcriptItems, speakerLanguages, connecting,
                   ctxVars>>

\* detectAndCacheLanguage over detectLanguageCode, which answers lang for a
\* text that is not cached
DetectedAndCachedB(cache, text, lang) ==
    IF IsInvalidText(text) THEN Null
    ELSE IF text \in DOMAIN cache THEN cache[text]
    ELSE lang

CacheAfterB(cache, text, lang) ==
    IF IsInvalidText(text) \/ text \in DOMAIN cache \/ lang = Null THEN cache
    ELSE (text :> lang) @@ cache

\* the speaker the utterance is attributed to: the first speaker with the
\* language, the item's id when there is none
UtteranceSpeaker(speakers, itemId, lang) ==
    IF FindLanguage(speakers, lang) # 0
    THEN speakers[FindLanguage(speakers, lang)].speakerId
    ELSE itemId

\* the speaker list once the utterance's registry update has been applied
UtteranceSpeakers(speakers, itemId, lang) ==
    IF FindLanguage(speakers, lang) # 0
    THEN ActivityUpdated(speakers, UtteranceSpeaker(speakers, itemId, lang), TRUE)
    ELSE NewSpeakerList(speakers, itemId, lang)

\* the pair once the utterance's pair update has been applied
UtterancePair(pair, speakers, lang) ==
    IF FindLanguage(speakers, lang) # 0 THEN pair
    ELSE NewSpeakerPair(pair, speakers, lang)

\* the values the queued writes of setLockedLanguagePair can leave: the write
\* of handleNewSpeaker is made inside the updater of setActiveSpeakers, which
\* React runs at the call or at the next render, so that it comes before or
\* after the write of getTranslationDirection
QueuedPairs(pair, speakers, itemId, lang) ==
    LET ofNewSpeaker == UtterancePair(pair, speakers, lang)
        ofDirection  ==
            DirectionPair(pair, speakers, UtteranceSpeaker(speakers, itemId, lang))
    IN IF ofNewSpeaker = pair /\ ofDirection = pair THEN {pair}
       ELSE {ofNewSpeaker, ofDirection} \ {pair}

\* the callback given to setTimeout(..., 0), with the state of the render
\* whose handleAudioTranscriptionComplete it calls
TimerB(n, transcription, speakerId, pair, speakers) ==
    [n |-> n, transcription |-> transcription, speakerId |-> speakerId,
     lockedLanguagePair |-> pair, activeSpeakers |-> speakers]

\* the case conversation.item.input_audio_transcription.completed
TranscriptionCompletedB(itemId, transcript, lang) ==
    LET finalTranscript == IF transcript = EmptyText THEN Inaudible ELSE transcript
        detectedLanguage ==
            IF finalTranscript # Inaudible /\ ~isTranslationMessage(finalTranscript)
            THEN DetectedAndCachedB(languageDetectionCache, finalTranscript, lang)
            ELSE Null
        speakerId == UtteranceSpeaker(activeSpeakers, itemId, detectedLanguage)
        speakers  == UtteranceSpeakers(activeSpeakers, itemId, detectedLanguage)
        direction == DirectionResult(lockedLanguagePair, activeSpeakers, speakerId)
    IN
    /\ pcRef = "session"
    /\ handled < MaxDispatches
    /\ handled' = handled + 1
    /\ IF detectedLanguage = Null
       THEN /\ lastOp' = Op("transcription.completed", Null, Null, NoDirection)
            /\ UNCHANGED <<hookVars, languageDetectionCache, timers>>
       ELSE /\ Len(speakers) <= MaxSpeakers
            /\ activeSpeakers' = speakers
            /\ lastDetectedLanguage' =
                  IF FindLanguage(activeSpeakers, detectedLanguage) = 0
                  THEN detectedLanguage ELSE lastDetectedLanguage
            /\ lockedLanguagePair' \in
                  QueuedPairs(lockedLanguagePair, activeSpeakers, itemId,
                              detectedLanguage)
            /\ languageDetectionCache' =
                  CacheAfterB(languageDetectionCache, finalTranscript, lang)
            /\ lastOp' = Op("transcription.completed", speakerId, detectedLanguage,
                            direction)
            /\ timers' =
                  IF direction # NoDirection /\ direction.source # direction.target
                  THEN Append(timers, TimerB(handled + 1, finalTranscript, speakerId,
                                             lockedLanguagePair, activeSpeakers))
                  ELSE timers
    /\ UNCHANGED <<now, appVars, shouldShowLanguageModal, activeLanguages,
                   recentTranslations, inflight, lastDispatch, invokedAt, messages,
                   clientEvents, translatedItemIds, unhandledRejections, delivered>>

\* the callback of setTimeout(..., 0): handleAudioTranscriptionComplete up to
\* the call of translateAndSpeak
TimerFiresB ==
    LET t == Head(timers)
        direction ==
            DirectionResult(t.lockedLanguagePair, t.activeSpeakers, t.speakerId)
        written ==
            DirectionPair(t.lockedLanguagePair, t.activeSpeakers, t.speakerId)
    IN
    /\ timers # << >>
    /\ timers' = Tail(timers)
    /\ lockedLanguagePair' =
          IF written # t.lockedLanguagePair THEN written ELSE lockedLanguagePair
    /\ lastOp' = Op("handleAudioTranscriptionComplete", t.speakerId, Null, direction)
    /\ IF direction = NoDirection
       THEN /\ lastDispatch' =
                  Decision("transcription", NoDirection, "skipped", "no-direction")
            /\ UNCHANGED inflight
       ELSE IF ~translateAndSpeakFetches(direction.source, direction.target)
       THEN /\ lastDispatch' =
                  Decision("transcription", direction, "skipped", "same-language")
            /\ UNCHANGED inflight
       ELSE IF isTranslationMessage(t.transcription)
       THEN /\ lastDispatch' =
                  Decision("transcription", direction, "skipped", "marker")
            /\ UNCHANGED inflight
       ELSE /\ lastDispatch' = Decision("transcription", direction, "invoked", "")
            /\ inflight' =
                  inflight \cup {Task(t.n, "transcription", t.transcription,
                                      direction, t.speakerId, Null)}
    /\ UNCHANGED <<activeSpeakers, lastDetectedLanguage, now, appVars,
                   shouldShowLanguageModal, activeLanguages, recentTranslations,
                   handled, invokedAt, messages, clientEvents, translatedItemIds,
                   languageDetectionCache, unhandledRejections, delivered>>

\* handleAudioTranscriptionComplete from the point where translateAndSpeak's
\* promise settles: with the text, without it, or after a failure that
\* translateAndSpeak caught
TranslateAndSpeakSettlesB(task, result) ==
    /\ task \in inflight
    /\ task.path = "transcription"
    /\ inflight' = inflight \ {task}
    /\ lastOp' = Op("translateAndSpeak", task.speakerId, Null,
                    Pair(task.source, task.target))
    /\ messages' =
          IF result = "content"
          THEN Append(messages, TranslationMessage(task)) ELSE messages
    /\ UNCHANGED <<hookVars, now, appVars, shouldShowLanguageModal, activeLanguages,
                   recentTranslations, lastDispatch, handled, invokedAt,
                   clientEvents, eventVars>>

NextT ==
    \/ Tick
    \/ connectToRealtime
    \/ ConnectionFails
    \/ ConnectionEstablished
    \/ SessionCreated
    \/ disconnectFromRealtime
    \/ \E id \in SpeakerIds, transcript \in EventTranscripts, lang \in Codes :
          TranscriptionCompletedB(id, transcript, lang)
    \/ TimerFiresB
    \/ \E task \in inflight, result \in FetchResults :
          TranslateAndSpeakSettlesB(task, result)

SpecT == Init /\ [][NextT]_vars

\* C29: for each transcribed utterance the direction is resolved on the state
\* that has the utterance's registry update and pair update applied: the
\* direction the handler resolves is the one getTranslationDirection gives
\* for the utterance's speaker on the updated speaker list and pair
C29_DirectionOnUpdatedState ==
    [][\A itemId \in SpeakerIds, transcript \in EventTranscripts, lang \in Codes :
          (TranscriptionCompletedB(itemId, transcript, lang)
             /\ lastOp'.language # Null)
          => lastOp'.result =
                DirectionResult(
                   UtterancePair(lockedLanguagePair, activeSpeakers, lastOp'.language),
                   UtteranceSpeakers(activeSpeakers, itemId, lastOp'.language),
                   lastOp'.speakerId)]_vars

\* C30: once the session has been disconnected no translation result is
\* consumed: while the status is DISCONNECTED no step appends a message, and
\* a translation in flight still settles
C30_NoMessageAfterTeardown ==
    [][sessionStatus = "DISCONNECTED" /\ sessionStatus' = "DISCONNECTED"
          => messages' = messages]_vars

\* C37: once the user has disconnected the session stays disconnected until
\* the user connects again: from a state with the status DISCONNECTED no step
\* other than a call of connectToRealtime changes the status or installs a
\* peer connection, also when a connection attempt was under way at the
\* disconnect and completes later
C37_StaysDisconnected ==
    [][(sessionStatus = "DISCONNECTED" /\ ~connectToRealtime)
          => /\ sessionStatus' = "DISCONNECTED"
             /\ pcRef' = Null]_vars

====
